---- MODULE Spec2Model ----
(***************************************************************************)
(* Session-description negotiation core of amazon-chime-sdk-js:            *)
(*   - VideoCodecCapability   the codec catalog                            *)
(*   - SDP                    the description document and its mutations   *)
(*   - SetLocalDescriptionTask  the cancellable commit of a mutated offer  *)
(*                                                                         *)
(* A description is kept in parsed form: the payload types of the sending  *)
(* video section in m-line order, and the audio section's parameters.      *)
(* The attribute lines of a payload type (rtpmap, fmtp with apt=) are the  *)
(* table Rtpmap below: a mutation of the m-line leaves them attached to    *)
(* their payload type.                                                     *)
(***************************************************************************)
EXTENDS Integers, Sequences, FiniteSets, TLC

\* ------------------------------------------------------------------ bounds
\* number of run() invocations the caller may make on one task
MaxRuns == 2
\* number of cancel() invocations the caller may make
MaxCancels == 2

\* number of policy operations the caller makes in one explored run
MaxCalls == 4
\* largest count of publishing participants (self excluded) the video index reports
MaxPublishers == 4
\* the same, where only the numeric results are explored
MaxEvaluatedPublishers == 26
\* number of operations a caller applies to the SDP documents it holds
MaxEdits == 3

Runs == 1..MaxRuns

\* ------------------------------------------------------- VideoCodecCapability
\* fmtp lines are sets of "key=value" parameters; {} is an absent sdpFmtpLine
vp8 == [codecName |-> "VP8", mimeType |-> "video/VP8", clockRate |-> 90000,
        sdpFmtpLine |-> {}]

h264ConstrainedBaselineProfile ==
    [codecName |-> "H264", mimeType |-> "video/H264", clockRate |-> 90000,
     sdpFmtpLine |-> {"level-asymmetry-allowed=1", "packetization-mode=1",
                      "profile-level-id=42e01f"}]

vp9Profile0 == [codecName |-> "VP9", mimeType |-> "video/VP9", clockRate |-> 90000,
                sdpFmtpLine |-> {"profile-id=0"}]

vp9Profile1 == [codecName |-> "VP9", mimeType |-> "video/VP9", clockRate |-> 90000,
                sdpFmtpLine |-> {"profile-id=1"}]

vp9Profile2 == [codecName |-> "VP9", mimeType |-> "video/VP9", clockRate |-> 90000,
                sdpFmtpLine |-> {"profile-id=2"}]

vp9 == vp9Profile0

av1MainProfile == [codecName |-> "AV1", mimeType |-> "video/AV1", clockRate |-> 90000,
                   sdpFmtpLine |-> {}]

av1 == av1MainProfile

\* the values the named constructors can produce (the constructor is private)
Catalog == {vp8, h264ConstrainedBaselineProfile, vp9Profile0, vp9Profile1,
            vp9Profile2, av1MainProfile}

\* ------------------------------------------------------------------ SDP
\* The rtpmap/fmtp attribute lines of the payload types an offer may carry:
\* name, fmtp parameters, and apt (the primary payload type of an rtx; 0 = none)
Rtpmap ==
    [pt \in {96, 97, 98, 99, 100, 101, 102, 103} |->
        CASE pt = 96  -> [name |-> "VP8",  fmtp |-> {}, apt |-> 0]
          [] pt = 97  -> [name |-> "rtx",  fmtp |-> {"apt=96"}, apt |-> 96]
          [] pt = 98  -> [name |-> "H264", fmtp |-> {"level-asymmetry-allowed=1",
                                                     "packetization-mode=1",
                                                     "profile-level-id=42e01f"}, apt |-> 0]
          [] pt = 99  -> [name |-> "rtx",  fmtp |-> {"apt=98"}, apt |-> 98]
          [] pt = 100 -> [name |-> "VP9",  fmtp |-> {"profile-id=0"}, apt |-> 0]
          [] pt = 101 -> [name |-> "rtx",  fmtp |-> {"apt=100"}, apt |-> 100]
          [] pt = 102 -> [name |-> "H264", fmtp |-> {"level-asymmetry-allowed=1",
                                                     "packetization-mode=0",
                                                     "profile-level-id=42e01f"}, apt |-> 0]
          [] pt = 103 -> [name |-> "rtx",  fmtp |-> {"apt=102"}, apt |-> 102]]

PayloadTypes == DOMAIN Rtpmap

SeqToSet(s) == {s[i] : i \in 1..Len(s)}

\* a document: video = payload types of the sending video section's m-line
\* (<<>>: no sending video section); audio = an audio section exists;
\* maxaveragebitrate = the opus fmtp parameter (0: absent); stereo = the
\* opus fmtp carries stereo=1
Document(video, audio) ==
    [video |-> video, audio |-> audio, maxaveragebitrate |-> 0, stereo |-> FALSE]

\* payload type q is the rtx pairing of payload type p
IsRtxOf(q, p) == Rtpmap[q].apt = p

\* q is an rtx whose primary is listed in the same section
IsPairedRtx(q, pts) == Rtpmap[q].apt \in SeqToSet(pts)

IsH264(pt) == Rtpmap[pt].name = "H264"

\* removeH264SupportFromSendSection: H.264 payload types and their rtx
\* pairings leave the sending video section
removeH264SupportFromSendSection(doc) ==
    [doc EXCEPT !.video =
        SelectSeq(doc.video,
                  LAMBDA pt : ~IsH264(pt)
                              /\ ~(Rtpmap[pt].apt \in PayloadTypes
                                   /\ IsH264(Rtpmap[pt].apt)))]

\* a payload type matches a preference by name and fmtp profile subset
MatchesPreference(pt, pref) ==
    /\ Rtpmap[pt].name = pref.codecName
    /\ pref.sdpFmtpLine \subseteq Rtpmap[pt].fmtp

\* a primary payload type immediately followed by its rtx pairing(s)
WithRtx(p, pts) == <<p>> \o SelectSeq(pts, LAMBDA q : IsRtxOf(q, p))

RECURSIVE Flatten(_)
Flatten(groups) ==
    IF groups = <<>> THEN <<>> ELSE Head(groups) \o Flatten(Tail(groups))

\* the payload types that travel on their own: everything but paired rtx
Primaries(pts) == SelectSeq(pts, LAMBDA q : ~IsPairedRtx(q, pts))

\* step 2 placing the matched primaries in their original order
MatchedPrimaries_InOriginalOrder(prefs, prims, placed) ==
    SelectSeq(prims, LAMBDA p : \E i \in DOMAIN prefs : MatchesPreference(p, prefs[i]))

\* step 2 of the reordering: the primaries matched by the preferences, in
\* preference order, each placed once
RECURSIVE MatchedPrimaries(_, _, _)
MatchedPrimaries(prefs, prims, placed) ==
    IF prefs = <<>> THEN <<>>
    ELSE LET hit == SelectSeq(prims, LAMBDA p : MatchesPreference(p, Head(prefs))
                                                /\ p \notin placed)
         IN  hit \o MatchedPrimaries(Tail(prefs), prims, placed \cup SeqToSet(hit))

\* the reordering without step 3
ReorderedPayloadTypes_DropsUnmatched(pts, prefs) ==
    LET matched == MatchedPrimaries(prefs, Primaries(pts), {})
    IN  Flatten([i \in 1..Len(matched) |-> WithRtx(matched[i], pts)])

\* the reordering moving the matched primaries without their rtx pairings
ReorderedPayloadTypes_MovesPrimariesOnly(pts, prefs) ==
    LET matched == MatchedPrimaries(prefs, Primaries(pts), {})
    IN  matched \o SelectSeq(pts, LAMBDA p : p \notin SeqToSet(matched))

\* steps 1-3 of the reordering
ReorderedPayloadTypes(pts, prefs) ==
    LET prims     == Primaries(pts)
        matched   == MatchedPrimaries(prefs, prims, {})
        unmatched == SelectSeq(prims, LAMBDA p : p \notin SeqToSet(matched))
        order     == matched \o unmatched
    IN  Flatten([i \in 1..Len(order) |-> WithRtx(order[i], pts)])

\* withVideoSendCodecPreferences: no-op without a sending video section or
\* with no preference
withVideoSendCodecPreferences(doc, prefs) ==
    IF doc.video = <<>> \/ prefs = <<>> THEN doc
    ELSE [doc EXCEPT !.video = ReorderedPayloadTypes(doc.video, prefs)]

\* withAudioMaxAverageBitrate: no-op without an audio section
withAudioMaxAverageBitrate(doc, maxAverageBitrate) ==
    IF doc.audio THEN [doc EXCEPT !.maxaveragebitrate = maxAverageBitrate] ELSE doc

\* withStereoAudio: marks the send audio codec as two-channel capable
withStereoAudio(doc) ==
    IF doc.audio THEN [doc EXCEPT !.stereo = TRUE] ELSE doc

\* preferH264IfExists: the H.264 payload types, each with its rtx pairing, move
\* to the front; the other codecs keep their relative order
preferH264IfExists(doc) ==
    IF \E i \in DOMAIN doc.video : IsH264(doc.video[i])
    THEN LET prims == Primaries(doc.video)
             order == SelectSeq(prims, IsH264) \o SelectSeq(prims, LAMBDA p : ~IsH264(p))
         IN  [doc EXCEPT !.video =
                 Flatten([i \in 1..Len(order) |-> WithRtx(order[i], doc.video)])]
    ELSE doc

\* A whole description: its media sections in document order. A section has
\* the media type and payload types of its m-line, its direction attribute
\* and its further attribute lines ("candidate": an a=candidate: line,
\* "ssrc msid": an a=ssrc:<id> msid: line, "msid": an a=msid: line).
Section(media, direction, payloads, attributes) ==
    [media |-> media, direction |-> direction, payloads |-> payloads,
     attributes |-> attributes]

SessionDescription(sections) ==
    [sections |-> sections, maxaveragebitrate |-> 0, stereo |-> FALSE]

\* the first video section whose direction permits sending (0: none)
SendingVideoSection(d) ==
    LET sending == {i \in DOMAIN d.sections :
                       /\ d.sections[i].media = "video"
                       /\ d.sections[i].direction \in {"sendrecv", "sendonly"}}
    IN  IF sending = {} THEN 0 ELSE CHOOSE i \in sending : \A j \in sending : i <= j

\* the part of a description the mutations of the sending video section and
\* of the audio section work on
ParsedForm(d) ==
    [video |-> IF SendingVideoSection(d) = 0 THEN <<>>
               ELSE d.sections[SendingVideoSection(d)].payloads,
     audio |-> \E i \in DOMAIN d.sections : d.sections[i].media = "audio",
     maxaveragebitrate |-> d.maxaveragebitrate,
     stereo |-> d.stereo]

\* the description with that part written back
WithParsedForm(d, doc) ==
    LET i == SendingVideoSection(d)
    IN  [sections |-> IF i = 0 THEN d.sections
                      ELSE [d.sections EXCEPT ![i].payloads = doc.video],
         maxaveragebitrate |-> doc.maxaveragebitrate,
         stereo |-> doc.stereo]

\* lines(): the text lines in order, each as (kind, text, numbers)
Line(kind, text, numbers) == [kind |-> kind, text |-> text, numbers |-> numbers]

SectionLines(d, sec) ==
    <<Line("m", sec.media, sec.payloads), Line("a", sec.direction, <<>>)>>
    \o [i \in 1..Len(sec.attributes) |-> Line("a", sec.attributes[i], <<>>)]
    \o (IF sec.media = "audio" /\ d.maxaveragebitrate # 0
        THEN <<Line("a", "fmtp maxaveragebitrate", <<d.maxaveragebitrate>>)>> ELSE <<>>)
    \o (IF sec.media = "audio" /\ d.stereo
        THEN <<Line("a", "fmtp stereo", <<1>>)>> ELSE <<>>)

lines(d) ==
    <<Line("v", "0", <<>>)>>
    \o Flatten([i \in 1..Len(d.sections) |-> SectionLines(d, d.sections[i])])

HasAttribute(sec, attribute) ==
    \E i \in DOMAIN sec.attributes : sec.attributes[i] = attribute

\* withUnifiedPlanFormat that adds the a=msid: line on every call
withUnifiedPlanFormat_AddsMsidAgain(d) ==
    [d EXCEPT !.sections =
        [i \in DOMAIN d.sections |->
            IF HasAttribute(d.sections[i], "ssrc msid")
            THEN [d.sections[i] EXCEPT !.attributes = Append(@, "msid")]
            ELSE d.sections[i]]]

\* withUnifiedPlanFormat: a section that carries its msid only on the ssrc
\* lines gets the media-level a=msid: line
withUnifiedPlanFormat(d) ==
    [d EXCEPT !.sections =
        [i \in DOMAIN d.sections |->
            IF /\ HasAttribute(d.sections[i], "ssrc msid")
               /\ ~HasAttribute(d.sections[i], "msid")
            THEN [d.sections[i] EXCEPT !.attributes = Append(@, "msid")]
            ELSE d.sections[i]]]

\* hasCandidates: some non-empty media section has an a=candidate: line
hasCandidates(d) ==
    \E i \in DOMAIN d.sections :
        d.sections[i].payloads # <<>> /\ HasAttribute(d.sections[i], "candidate")

\* hasCandidatesForAllMLines asking a candidate of the first section only
hasCandidatesForAllMLines_FirstSectionOnly(d) ==
    d.sections # <<>> => HasAttribute(d.sections[1], "candidate")

\* hasCandidatesForAllMLines: every non-empty media section has one
hasCandidatesForAllMLines(d) ==
    \A i \in DOMAIN d.sections :
        d.sections[i].payloads # <<>> => HasAttribute(d.sections[i], "candidate")

\* clone() that returns the receiver
clone_ReturnsThis(ref) == ref

\* clone(): a new object (the caller's second one) with the same text
clone(ref) == ref + 1

\* ------------------------------------------------- SetLocalDescriptionTask
VARIABLES
    sdpOfferInit,                   \* context.sdpOfferInit: {type, sdp}
    requiresDisablingH264Encoding,  \* DefaultBrowserBehavior's answer
    hasChooseVideoCodecPreferences, \* the policy implements the optional method
    videoCodecPreferences,          \* the policy's stored preference list
    wantsResubscribeForVideoCodecPreferenceChange,
    audioProfile,                   \* context.audioProfile (configured or not)
    cancelPromise,                  \* 0: undefined; r: the reject hook of run r
    pc,                             \* where each run() stands
    promise,                        \* the promise run() awaits at line 66
    reason,                         \* its rejection reason ("" when none)
    inner,                          \* the peer.setLocalDescription call of a run
    endpointError,                  \* what the endpoint rejected with
    thrown,                         \* the error run() threw to its caller
    delivered,                      \* the descriptions the endpoint received
    steps,                          \* history: the steps run() has executed
    cancels,                        \* history: number of cancel() invocations
    cancelledAt                     \* history: phases of a run at which cancel() came

\* NScaleVideoUplinkBandwidthPolicy and the collaborators it reads
VARIABLES
    numParticipants,
    heap,                    \* the DefaultVideoAndEncodeParameter objects, by reference
    optimalParameters,       \* reference of this.optimalParameters
    parametersInEffect,      \* reference of this.parametersInEffect
    returnedParameters,      \* reference the last chooseCaptureAndEncodeParameters()
                             \* returned (0: none yet)
    idealMaxBandwidthKbps,
    hasBandwidthPriority,
    scaleResolution,         \* constructor argument
    encodingParamMap,        \* the entry of key 'video'
    transceiverController,   \* TRUE: a controller is set
    hasVideoInput,           \* the controller's hasVideoInput()
    captureSetting,          \* the local track's getSettings()
    transceiverEncoding,     \* sender.getParameters().encodings: <<>> or <<encoding>>
    calls,                   \* history: number of policy operations so far
    history                  \* history: what the last operations were given and returned

\* the demo application (DemoMeetingApp)
VARIABLES
    preferredVideoCodec,     \* DemoMeetingApp.preferredVideoCodec
    appStep                  \* where the application's start-up stands

appVars == <<preferredVideoCodec, appStep>>

\* SDP documents held by a caller
VARIABLES
    docs,                    \* the SDP objects, by reference
    copy,                    \* reference clone() returned (0: not cloned yet)
    edit                     \* history: the last operation applied to a document

documentVars == <<docs, copy, edit>>

policyVars == <<numParticipants, heap, optimalParameters, parametersInEffect,
                returnedParameters, idealMaxBandwidthKbps, hasBandwidthPriority,
                scaleResolution, encodingParamMap, transceiverController, hasVideoInput,
                captureSetting, transceiverEncoding, calls>>

vars == <<sdpOfferInit, requiresDisablingH264Encoding, hasChooseVideoCodecPreferences,
          videoCodecPreferences, wantsResubscribeForVideoCodecPreferenceChange,
          audioProfile, cancelPromise, pc, promise, reason, inner, endpointError,
          thrown, delivered, steps, cancels, cancelledAt, policyVars, history,
          appVars, documentVars>>

contextVars == <<sdpOfferInit, requiresDisablingH264Encoding,
                 hasChooseVideoCodecPreferences, videoCodecPreferences, audioProfile,
                 policyVars, appVars, documentVars>>

\* `canceling ${this.name()}`
CancelError == "canceling SetLocalDescriptionTask"

\* errors the endpoint may reject with
EndpointErrors == {"InvalidStateError", "OperationError"}

NoAudioProfile == [configured |-> FALSE, audioBitrateBps |-> 0, stereo |-> FALSE]

AudioProfiles ==
    {NoAudioProfile}
    \cup [configured : {TRUE}, audioBitrateBps : {64000, 128000}, stereo : BOOLEAN]

Offers ==
    { Document(<<96, 97, 98, 99>>, TRUE),
      Document(<<96, 97, 102, 103, 100, 101, 98, 99>>, TRUE),
      Document(<<98, 99, 96, 97>>, FALSE),
      Document(<<>>, TRUE) }

PreferenceLists ==
    { <<>>, <<h264ConstrainedBaselineProfile>>, <<vp9Profile0, vp8>>, <<av1MainProfile>> }

\* step 1 applied whatever the capability flag says
RemoveH264Step_Unconditional(st, requiresDisabling) ==
    [sdp   |-> removeH264SupportFromSendSection(st.sdp),
     steps |-> Append(st.steps, "removeH264")]

\* lines 36-38: step 1, the H.264 workaround
RemoveH264Step(st, requiresDisabling) ==
    IF requiresDisabling
    THEN [sdp   |-> removeH264SupportFromSendSection(st.sdp),
          steps |-> Append(st.steps, "removeH264")]
    ELSE st

\* step 2 without the length test of line 42
CodecPreferencesStep_NoLengthCheck(st, hasChoose, preferences) ==
    IF hasChoose
    THEN [sdp   |-> withVideoSendCodecPreferences(st.sdp, preferences),
          steps |-> Append(st.steps, "codecPreferences")]
    ELSE st

\* lines 40-45: step 2, the codec preferences of the policy
CodecPreferencesStep(st, hasChoose, preferences) ==
    IF hasChoose /\ Len(preferences) > 0
    THEN [sdp   |-> withVideoSendCodecPreferences(st.sdp, preferences),
          steps |-> Append(st.steps, "codecPreferences")]
    ELSE st

\* step 3 with the stereo munging applied for every configured profile
AudioProfileStep_StereoUnconditional(st, profile) ==
    IF profile.configured
    THEN [sdp   |-> withStereoAudio(withAudioMaxAverageBitrate(st.sdp,
                                                               profile.audioBitrateBps)),
          steps |-> st.steps \o <<"maxAverageBitrate", "stereo">>]
    ELSE st

\* lines 47-54: step 3, the audio profile
AudioProfileStep(st, profile) ==
    IF profile.configured
    THEN LET bitrate == [sdp   |-> withAudioMaxAverageBitrate(st.sdp,
                                                              profile.audioBitrateBps),
                         steps |-> Append(st.steps, "maxAverageBitrate")]
         IN  IF profile.stereo
             THEN [sdp   |-> withStereoAudio(bitrate.sdp),
                   steps |-> Append(bitrate.steps, "stereo")]
             ELSE bitrate
    ELSE st

\* the mutations with the audio step moved before the video steps
MungedOffer_AudioBeforeVideo(sdp, requiresDisabling, hasChoose, preferences, profile) ==
    CodecPreferencesStep(
        RemoveH264Step(
            AudioProfileStep([sdp |-> sdp, steps |-> <<>>], profile),
            requiresDisabling),
        hasChoose, preferences)

\* lines 34-54: the synchronous mutations of run(), in code order
MungedOffer(sdp, requiresDisabling, hasChoose, preferences, profile) ==
    AudioProfileStep(
        CodecPreferencesStep(
            RemoveH264Step([sdp |-> sdp, steps |-> <<>>], requiresDisabling),
            hasChoose, preferences),
        profile)

\* a promise that a later resolve()/reject() settles again
SettledPromise_Overwrites(r, how) == [promise EXCEPT ![r] = how]

\* resolve()/reject() of the promise of run r: a settled promise stays as it is
SettledPromise(r, how) ==
    IF promise[r] = "pending" THEN [promise EXCEPT ![r] = how] ELSE promise

SettledReason(r, why) ==
    IF promise[r] = "pending" THEN [reason EXCEPT ![r] = why] ELSE reason

\* the phase of run r that a cancel() meets
Phase(r) ==
    IF pc[r] = "pending" THEN "pending"
    ELSE IF inner[r] = "awaiting" THEN "inflight"
    ELSE inner[r]

TaskInit ==
    /\ sdpOfferInit \in [type : {"offer"}, sdp : Offers]
    /\ requiresDisablingH264Encoding \in BOOLEAN
    /\ hasChooseVideoCodecPreferences \in BOOLEAN
    /\ videoCodecPreferences \in PreferenceLists
    /\ wantsResubscribeForVideoCodecPreferenceChange \in BOOLEAN
    /\ audioProfile \in AudioProfiles
    /\ cancelPromise = 0
    /\ pc = [r \in Runs |-> "pending"]
    /\ promise = [r \in Runs |-> "none"]
    /\ reason = [r \in Runs |-> ""]
    /\ inner = [r \in Runs |-> "idle"]
    /\ endpointError = [r \in Runs |-> ""]
    /\ thrown = [r \in Runs |-> ""]
    /\ delivered = [r \in Runs |-> <<>>]
    /\ steps = [r \in Runs |-> <<>>]
    /\ cancels = 0
    /\ cancelledAt = [r \in Runs |-> {}]

\* step 2 reading the preferences without acknowledging them
MarkAfterStep2_LeavesMark(hasChoose, mark) == mark

\* lines 40-41: step 2 calls chooseVideoCodecPreferences() when the policy has
\* it, which clears the policy's pending mark (policy line 232)
MarkAfterStep2(hasChoose, mark) == IF hasChoose THEN FALSE ELSE mark

\* run(), lines 31-72: everything up to the suspension at the endpoint call.
\* syncError = "": the endpoint returns a pending promise; otherwise the call
\* throws syncError at once (caught at line 74, hook deleted at line 77).
RunToEndpoint(r, syncError) ==
    LET munged == MungedOffer(sdpOfferInit.sdp, requiresDisablingH264Encoding,
                              hasChooseVideoCodecPreferences, videoCodecPreferences,
                              audioProfile)
        sdpOffer == [type |-> "offer", sdp |-> munged.sdp]
    IN  /\ pc[r] = "pending"
        /\ pc' = [pc EXCEPT ![r] = "awaiting"]
        /\ wantsResubscribeForVideoCodecPreferenceChange' =
               MarkAfterStep2(hasChooseVideoCodecPreferences,
                              wantsResubscribeForVideoCodecPreferenceChange)
        /\ history' =
               IF hasChooseVideoCodecPreferences
               THEN [history EXCEPT
                        !.prefEvent = "read", !.chosen = videoCodecPreferences,
                        !.acknowledged = wantsResubscribeForVideoCodecPreferenceChange]
               ELSE history
        /\ steps' = [steps EXCEPT ![r] = munged.steps \o <<"hook", "setLocalDescription">>]
        /\ delivered' = [delivered EXCEPT ![r] = Append(@, sdpOffer)]
        /\ IF syncError = ""
           THEN /\ cancelPromise' = r
                /\ promise' = [promise EXCEPT ![r] = "pending"]
                /\ inner' = [inner EXCEPT ![r] = "awaiting"]
                /\ UNCHANGED <<reason, endpointError>>
           ELSE /\ cancelPromise' = 0
                /\ promise' = [promise EXCEPT ![r] = "rejected"]
                /\ reason' = [reason EXCEPT ![r] = syncError]
                /\ inner' = [inner EXCEPT ![r] = "rejected"]
                /\ endpointError' = [endpointError EXCEPT ![r] = syncError]
        /\ UNCHANGED <<contextVars, thrown, cancels, cancelledAt>>

\* run() that refuses to start once cancel() was called
Run_FailsAfterEarlierCancel(r) ==
    IF cancels = 0
    THEN \E syncError \in {""} \cup EndpointErrors : RunToEndpoint(r, syncError)
    ELSE /\ pc[r] = "pending"
         /\ pc' = [pc EXCEPT ![r] = "returned"]
         /\ promise' = [promise EXCEPT ![r] = "rejected"]
         /\ reason' = [reason EXCEPT ![r] = CancelError]
         /\ thrown' = [thrown EXCEPT ![r] = CancelError]
         /\ UNCHANGED <<history, contextVars,
                        wantsResubscribeForVideoCodecPreferenceChange, cancelPromise,
                        inner, endpointError, delivered, steps, cancels, cancelledAt>>

\* lines 31-72, for either way the endpoint call starts
Run(r) == \E syncError \in {""} \cup EndpointErrors : RunToEndpoint(r, syncError)

\* cancel() that deletes the hook without invoking it
Cancel_DropsHookUnfired ==
    /\ cancels < MaxCancels
    /\ cancels' = cancels + 1
    /\ cancelledAt' = [r \in Runs |-> cancelledAt[r] \cup {Phase(r)}]
    /\ cancelPromise' = 0
    /\ UNCHANGED <<history, contextVars, wantsResubscribeForVideoCodecPreferenceChange, pc, inner,
                   endpointError, thrown, delivered, steps, promise, reason>>

\* cancel() that fails every started run, with or without a live hook
Cancel_RejectsWithoutHook ==
    /\ cancels < MaxCancels
    /\ cancels' = cancels + 1
    /\ cancelledAt' = [r \in Runs |-> cancelledAt[r] \cup {Phase(r)}]
    /\ promise' = [r \in Runs |-> IF promise[r] = "none" THEN "none" ELSE "rejected"]
    /\ reason' = [r \in Runs |-> IF promise[r] = "none" THEN "" ELSE CancelError]
    /\ cancelPromise' = 0
    /\ UNCHANGED <<history, contextVars, wantsResubscribeForVideoCodecPreferenceChange, pc, inner,
                   endpointError, thrown, delivered, steps>>

\* cancel() that invokes the hook and leaves it registered
Cancel_KeepsHook ==
    /\ cancels < MaxCancels
    /\ cancels' = cancels + 1
    /\ cancelledAt' = [r \in Runs |-> cancelledAt[r] \cup {Phase(r)}]
    /\ IF cancelPromise # 0
       THEN /\ promise' = SettledPromise(cancelPromise, "rejected")
            /\ reason' = SettledReason(cancelPromise, CancelError)
       ELSE UNCHANGED <<promise, reason>>
    /\ UNCHANGED <<history, contextVars, wantsResubscribeForVideoCodecPreferenceChange, pc, inner,
                   endpointError, thrown, delivered, steps, cancelPromise>>

\* cancel(), lines 21-29
Cancel ==
    /\ cancels < MaxCancels
    /\ cancels' = cancels + 1
    /\ cancelledAt' = [r \in Runs |-> cancelledAt[r] \cup {Phase(r)}]
    /\ IF cancelPromise # 0
       THEN /\ promise' = SettledPromise(cancelPromise, "rejected")
            /\ reason' = SettledReason(cancelPromise, CancelError)
            /\ cancelPromise' = 0
       ELSE UNCHANGED <<promise, reason, cancelPromise>>
    /\ UNCHANGED <<history, contextVars, wantsResubscribeForVideoCodecPreferenceChange, pc, inner,
                   endpointError, thrown, delivered, steps>>

\* lines 72-73, 76-77: the endpoint call of run r resolves
EndpointResolves(r) ==
    /\ inner[r] = "awaiting"
    /\ inner' = [inner EXCEPT ![r] = "resolved"]
    /\ promise' = SettledPromise(r, "fulfilled")
    /\ reason' = reason
    /\ cancelPromise' = 0
    /\ UNCHANGED <<history, contextVars, wantsResubscribeForVideoCodecPreferenceChange, pc,
                   endpointError, thrown, delivered, steps, cancels, cancelledAt>>

\* a rejection answered by calling the endpoint again
EndpointRejects_Retries(r, error) ==
    /\ inner[r] = "awaiting"
    /\ Len(delivered[r]) < 3
    /\ delivered' = [delivered EXCEPT ![r] = Append(@, @[1])]
    /\ endpointError' = [endpointError EXCEPT ![r] = error]
    /\ UNCHANGED <<history, contextVars, wantsResubscribeForVideoCodecPreferenceChange, pc,
                   cancelPromise, promise, reason, inner, thrown, steps, cancels,
                   cancelledAt>>

\* a rejection passed on wrapped in a new error
EndpointRejects_WrapsError(r, error) ==
    /\ inner[r] = "awaiting"
    /\ inner' = [inner EXCEPT ![r] = "rejected"]
    /\ endpointError' = [endpointError EXCEPT ![r] = error]
    /\ promise' = SettledPromise(r, "rejected")
    /\ reason' = SettledReason(r, "setLocalDescription failed")
    /\ cancelPromise' = 0
    /\ UNCHANGED <<history, contextVars, wantsResubscribeForVideoCodecPreferenceChange, pc,
                   thrown, delivered, steps, cancels, cancelledAt>>

\* lines 72, 74-77: the endpoint call of run r rejects with error
EndpointRejects(r, error) ==
    /\ inner[r] = "awaiting"
    /\ inner' = [inner EXCEPT ![r] = "rejected"]
    /\ endpointError' = [endpointError EXCEPT ![r] = error]
    /\ promise' = SettledPromise(r, "rejected")
    /\ reason' = SettledReason(r, error)
    /\ cancelPromise' = 0
    /\ UNCHANGED <<history, contextVars, wantsResubscribeForVideoCodecPreferenceChange, pc,
                   thrown, delivered, steps, cancels, cancelledAt>>

\* lines 66, 79-82: run() resumes from the settled promise and returns or throws
RunReturns(r) ==
    /\ pc[r] = "awaiting"
    /\ promise[r] \in {"fulfilled", "rejected"}
    /\ pc' = [pc EXCEPT ![r] = "returned"]
    /\ thrown' = [thrown EXCEPT ![r] = reason[r]]
    /\ UNCHANGED <<history, contextVars, wantsResubscribeForVideoCodecPreferenceChange,
                   cancelPromise, promise, reason, inner, endpointError, delivered,
                   steps, cancels, cancelledAt>>

\* the task's state as its caller sees it
State(r) ==
    CASE pc[r] = "pending"  -> "Pending"
      [] pc[r] = "awaiting" -> "Running"
      [] pc[r] = "returned" /\ promise[r] = "fulfilled" -> "Committed"
      [] pc[r] = "returned" /\ promise[r] = "rejected" /\ thrown[r] = CancelError
                            -> "Cancelled"
      [] OTHER              -> "Failed"

Terminal(r) == State(r) \in {"Committed", "Cancelled", "Failed"}

\* ---------------------------------------- NScaleVideoUplinkBandwidthPolicy
\* static readonly targetHeightArray (index 0 of the code is index 1 here)
targetHeightArray ==
    <<0, 0, 0, 540, 540, 480, 480, 480, 480, 360, 360, 360, 360,
      270, 270, 270, 270, 180, 180, 180, 180, 180, 180, 180, 180, 180>>

RECURSIVE GCD(_, _)
GCD(a, b) == IF b = 0 THEN a ELSE GCD(b, a % b)

\* the number a / b, kept as a fraction in lowest terms <<numerator, denominator>>
Quotient(a, b) == <<a \div GCD(a, b), b \div GCD(a, b)>>

One == <<1, 1>>

Min(a, b) == IF a < b THEN a ELSE b

\* Math.max(x, 1) of a fraction x
MaxWithOne(x) == IF x[1] > x[2] THEN x ELSE One

\* new DefaultVideoAndEncodeParameter(width, height, frameRate, bitrate, simulcast, scale)
DefaultVideoAndEncodeParameter(width, height, frameRate, bitrate, simulcast, scale) ==
    [captureWidth |-> width, captureHeight |-> height, captureFrameRate |-> frameRate,
     maxEncodeBitrateKbps |-> bitrate, isSimulcast |-> simulcast,
     scaleResolutionDownBy |-> scale]

\* lines 63-64: the parameters the constructor installs
ZeroParameter == DefaultVideoAndEncodeParameter(0, 0, 0, 0, FALSE, One)

\* at most three parameter objects are referenced at a time, a fourth is being built
Refs == 1..4

\* the reference a `new` or clone() yields: one that nothing live holds
Fresh(live) == CHOOSE r \in Refs \ live : \A q \in Refs \ live : r <= q

\* objects no longer referenced disappear
Collect(h, live) == [r \in Refs |-> IF r \in live THEN h[r] ELSE ZeroParameter]

\* DefaultVideoAndEncodeParameter.equal
Equal(a, b) == a = b

\* captureWidth() with the threshold one participant later
captureWidth_ThresholdFive(n) == IF n > 5 THEN 320 ELSE 640

\* lines 121-127
captureWidth(n) == IF n > 4 THEN 320 ELSE 640

\* lines 129-135
captureHeight(n) == IF n > 4 THEN 192 ELSE 384

\* lines 137-139
captureFrameRate == 15

\* Line 151 is evaluated in IEEE-754 double precision. Its exact value is
\* (544*n + 14880) * I / (6600 * n); the double result lies within 1e-12 of
\* it, so Math.trunc gives the exact floor unless the exact value is an
\* integer and the double falls just below it. For n <= 49 and I <= 5000
\* that happens exactly for n = 15 and I a positive multiple of 275
\* (e.g. n = 15, I = 1100: 255.99999999999997).
DoubleFallsBelow(n, I) == n = 15 /\ I > 0 /\ I % 275 = 0

\* maxBandwidthKbps() with half the ideal bandwidth in the middle tier
MaxBandwidthKbpsOf_MiddleTierHalf(n, I, priority) ==
    IF priority THEN I
    ELSE IF n <= 2 THEN I
    ELSE IF n <= 4 THEN I \div 2
    ELSE LET num == (544 * n + 14880) * I
             den == 6600 * n
         IN  IF num % den = 0 /\ DoubleFallsBelow(n, I)
             THEN (num \div den) - 1
             ELSE num \div den

\* maxBandwidthKbps(), lines 141-154
MaxBandwidthKbpsOf(n, I, priority) ==
    IF priority THEN I
    ELSE IF n <= 2 THEN I
    ELSE IF n <= 4 THEN (I * 2) \div 3
    ELSE LET num == (544 * n + 14880) * I
             den == 6600 * n
         IN  IF num % den = 0 /\ DoubleFallsBelow(n, I)
             THEN (num \div den) - 1
             ELSE num \div den

maxBandwidthKbps ==
    MaxBandwidthKbpsOf(numParticipants, idealMaxBandwidthKbps, hasBandwidthPriority)

\* lines 202-208
TargetHeight(n) == targetHeightArray[Min(n, Len(targetHeightArray) - 1) + 1]

\* calculateEncodingParameters(setting) without the test of line 200
CalculateEncodingParametersOf_IgnoresCount(n, I, priority, scaling, setting) ==
    [maxBitrate |-> MaxBandwidthKbpsOf(n, I, priority) * 1000,
     scaleResolutionDownBy |->
        IF /\ setting.height # 0
           /\ setting.width # 0
           /\ scaling
           /\ ~priority
        THEN MaxWithOne(Quotient(Min(setting.height, setting.width), TargetHeight(n)))
        ELSE One]

\* calculateEncodingParameters(setting) scaling also under bandwidth priority
CalculateEncodingParametersOf_IgnoresPriority(n, I, priority, scaling, setting) ==
    [maxBitrate |-> MaxBandwidthKbpsOf(n, I, priority) * 1000,
     scaleResolutionDownBy |->
        IF /\ setting.height # 0
           /\ setting.width # 0
           /\ scaling
           /\ n > 2
        THEN MaxWithOne(Quotient(Min(setting.height, setting.width), TargetHeight(n)))
        ELSE One]

\* calculateEncodingParameters(setting), lines 192-220; a width or height of
\* 0 stands for undefined (a real 0 gives the same scale, 1)
CalculateEncodingParametersOf(n, I, priority, scaling, setting) ==
    [maxBitrate |-> MaxBandwidthKbpsOf(n, I, priority) * 1000,
     scaleResolutionDownBy |->
        IF /\ setting.height # 0
           /\ setting.width # 0
           /\ scaling
           /\ ~priority
           /\ n > 2
        THEN MaxWithOne(Quotient(Min(setting.height, setting.width), TargetHeight(n)))
        ELSE One]

calculateEncodingParameters(n, setting) ==
    CalculateEncodingParametersOf(n, idealMaxBandwidthKbps, hasBandwidthPriority,
                                  scaleResolution, setting)

\* getStreamCaptureSetting(), lines 222-224: <<>> when the controller, the
\* transceiver, the sender or the track is missing
getStreamCaptureSetting ==
    IF transceiverController /\ captureSetting.present THEN <<captureSetting>> ELSE <<>>

\* hasLocalVideo left at its initial value
HasLocalVideo_Always == TRUE

\* lines 83-87
HasLocalVideo == IF transceiverController THEN hasVideoInput ELSE TRUE

\* lines 102-109, for the participant count n
OptimalParametersFor(n) ==
    LET settings == getStreamCaptureSetting
        scale == IF settings # <<>>
                 THEN calculateEncodingParameters(n, settings[1]).scaleResolutionDownBy
                 ELSE One
    IN  DefaultVideoAndEncodeParameter(
            captureWidth(n), captureHeight(n), captureFrameRate,
            MaxBandwidthKbpsOf(n, idealMaxBandwidthKbps, hasBandwidthPriority),
            FALSE, scale)

\* wantsResubscribe() without the comparison of the parameters
wantsResubscribe_IgnoresParameters ==
    wantsResubscribeForVideoCodecPreferenceChange

\* wantsResubscribe() without the codec-preference term
wantsResubscribe_IgnoresPreferenceChange ==
    ~Equal(heap[parametersInEffect], heap[optimalParameters])

\* wantsResubscribe(), lines 112-114
wantsResubscribe ==
    \/ wantsResubscribeForVideoCodecPreferenceChange
    \/ ~Equal(heap[parametersInEffect], heap[optimalParameters])

\* shouldUpdateEndcodingParameters(encoding) without the comparison
shouldUpdateEndcodingParameters_Always(encoding) == TRUE

\* shouldUpdateEndcodingParameters(encoding), lines 180-190
shouldUpdateEndcodingParameters(encoding) ==
    \/ transceiverEncoding = <<>>
    \/ encoding.maxBitrate # transceiverEncoding[1].maxBitrate
    \/ encoding.scaleResolutionDownBy # transceiverEncoding[1].scaleResolutionDownBy

taskRunVars == <<sdpOfferInit, requiresDisablingH264Encoding,
                 hasChooseVideoCodecPreferences, audioProfile, cancelPromise, pc, promise,
                 reason, inner, endpointError, thrown, delivered, steps, cancels,
                 cancelledAt, appVars, documentVars>>

CaptureSettings ==
    { [present |-> FALSE, width |-> 0, height |-> 0],
      [present |-> TRUE, width |-> 1280, height |-> 720],
      [present |-> TRUE, width |-> 0, height |-> 720],
      [present |-> TRUE, width |-> 320, height |-> 180] }

IdealBandwidths == {0, 600, 1100, 1400}

NoHistory ==
    [lastCall |-> "constructor", count |-> 0, prefEvent |-> "none", lastSet |-> <<>>,
     chosen |-> <<>>, acknowledged |-> FALSE, pushed |-> FALSE, raised |-> FALSE,
     result |-> 0]

\* constructor, lines 48-68, but for the preference fields, the ideal
\* bandwidth and the priority; no controller is set yet
PolicyFieldsInit ==
    /\ numParticipants = 0
    /\ heap = [r \in Refs |-> ZeroParameter]
    /\ optimalParameters = 1
    /\ parametersInEffect = 2
    /\ returnedParameters = 0
    /\ encodingParamMap = [maxBitrate |-> 0, scaleResolutionDownBy |-> <<0, 0>>]
    /\ transceiverController = FALSE
    /\ transceiverEncoding = <<>>
    /\ calls = 0

\* the local video the controller will report: none yet
NoLocalVideo ==
    /\ hasVideoInput = FALSE
    /\ captureSetting = [present |-> FALSE, width |-> 0, height |-> 0]

\* updateIndex that also puts the new parameters in effect
updateIndex_AlsoCommits(count) ==
    LET n   == count + (IF HasLocalVideo THEN 1 ELSE 0)
        ref == Fresh({parametersInEffect, returnedParameters})
    IN  /\ numParticipants' = n
        /\ optimalParameters' = ref
        /\ parametersInEffect' = ref
        /\ heap' = Collect([heap EXCEPT ![ref] = OptimalParametersFor(n)],
                           {ref, returnedParameters})
        /\ history' = [history EXCEPT !.lastCall = "updateIndex", !.count = count]
        /\ UNCHANGED <<returnedParameters, idealMaxBandwidthKbps,
                       hasBandwidthPriority, scaleResolution, encodingParamMap,
                       transceiverController, hasVideoInput, captureSetting,
                       transceiverEncoding, videoCodecPreferences,
                       wantsResubscribeForVideoCodecPreferenceChange, taskRunVars>>

\* updateIndex(videoIndex), lines 82-110; count = the index's
\* numberOfVideoPublishingParticipantsExcludingSelf
updateIndex(count) ==
    LET n   == count + (IF HasLocalVideo THEN 1 ELSE 0)
        ref == Fresh({parametersInEffect, returnedParameters})
    IN  /\ numParticipants' = n
        /\ optimalParameters' = ref
        /\ heap' = Collect([heap EXCEPT ![ref] = OptimalParametersFor(n)],
                           {ref, parametersInEffect, returnedParameters})
        /\ history' = [history EXCEPT !.lastCall = "updateIndex", !.count = count]
        /\ UNCHANGED <<parametersInEffect, returnedParameters, idealMaxBandwidthKbps,
                       hasBandwidthPriority, scaleResolution, encodingParamMap,
                       transceiverController, hasVideoInput, captureSetting,
                       transceiverEncoding, videoCodecPreferences,
                       wantsResubscribeForVideoCodecPreferenceChange, taskRunVars>>

\* chooseCaptureAndEncodeParameters() that returns the copy without line 117
chooseCaptureAndEncodeParameters_KeepsInEffect ==
    LET returned == Fresh({optimalParameters, parametersInEffect})
    IN  /\ returnedParameters' = returned
        /\ heap' = Collect([heap EXCEPT ![returned] = heap[optimalParameters]],
                           {optimalParameters, parametersInEffect, returned})
        /\ history' = [history EXCEPT !.lastCall = "chooseCaptureAndEncodeParameters"]
        /\ UNCHANGED <<numParticipants, optimalParameters, parametersInEffect,
                       idealMaxBandwidthKbps, hasBandwidthPriority, scaleResolution,
                       encodingParamMap, transceiverController, hasVideoInput,
                       captureSetting, transceiverEncoding, videoCodecPreferences,
                       wantsResubscribeForVideoCodecPreferenceChange, taskRunVars>>

\* chooseCaptureAndEncodeParameters() returning parametersInEffect itself
chooseCaptureAndEncodeParameters_ReturnsInEffect ==
    LET inEffect == Fresh({optimalParameters})
    IN  /\ parametersInEffect' = inEffect
        /\ returnedParameters' = inEffect
        /\ heap' = Collect([heap EXCEPT ![inEffect] = heap[optimalParameters]],
                           {optimalParameters, inEffect})
        /\ history' = [history EXCEPT !.lastCall = "chooseCaptureAndEncodeParameters"]
        /\ UNCHANGED <<numParticipants, optimalParameters, idealMaxBandwidthKbps,
                       hasBandwidthPriority, scaleResolution, encodingParamMap,
                       transceiverController, hasVideoInput, captureSetting,
                       transceiverEncoding, videoCodecPreferences,
                       wantsResubscribeForVideoCodecPreferenceChange, taskRunVars>>

\* chooseCaptureAndEncodeParameters(), lines 116-119
chooseCaptureAndEncodeParameters ==
    LET inEffect == Fresh({optimalParameters})
        returned == Fresh({optimalParameters, inEffect})
    IN  /\ parametersInEffect' = inEffect
        /\ returnedParameters' = returned
        /\ heap' = Collect([heap EXCEPT ![inEffect] = heap[optimalParameters],
                                        ![returned] = heap[optimalParameters]],
                           {optimalParameters, inEffect, returned})
        /\ history' = [history EXCEPT !.lastCall = "chooseCaptureAndEncodeParameters"]
        /\ UNCHANGED <<numParticipants, optimalParameters, idealMaxBandwidthKbps,
                       hasBandwidthPriority, scaleResolution, encodingParamMap,
                       transceiverController, hasVideoInput, captureSetting,
                       transceiverEncoding, videoCodecPreferences,
                       wantsResubscribeForVideoCodecPreferenceChange, taskRunVars>>

\* the caller changes the object chooseCaptureAndEncodeParameters() gave it
ChangeReturnedParameters ==
    /\ returnedParameters # 0
    /\ heap[returnedParameters].captureFrameRate # 30
    /\ heap' = [heap EXCEPT ![returnedParameters].captureFrameRate = 30]
    /\ history' = [history EXCEPT !.lastCall = "changeReturnedParameters"]
    /\ UNCHANGED <<numParticipants, optimalParameters, parametersInEffect,
                   returnedParameters, idealMaxBandwidthKbps, hasBandwidthPriority,
                   scaleResolution, encodingParamMap, transceiverController,
                   hasVideoInput, captureSetting, transceiverEncoding,
                   videoCodecPreferences, wantsResubscribeForVideoCodecPreferenceChange,
                   taskRunVars>>

\* maxBandwidthKbps() called from outside, lines 141-154
MaxBandwidthKbpsCall ==
    /\ history' = [history EXCEPT !.lastCall = "maxBandwidthKbps",
                                  !.result = maxBandwidthKbps]
    /\ UNCHANGED <<numParticipants, heap, optimalParameters, parametersInEffect,
                   returnedParameters, idealMaxBandwidthKbps, hasBandwidthPriority,
                   scaleResolution, encodingParamMap, transceiverController,
                   hasVideoInput, captureSetting, transceiverEncoding,
                   videoCodecPreferences, wantsResubscribeForVideoCodecPreferenceChange,
                   taskRunVars>>

\* setIdealMaxBandwidthKbps that also recomputes the optimal parameters
setIdealMaxBandwidthKbps_Recomputes(kbps) ==
    LET ref == Fresh({parametersInEffect, returnedParameters})
    IN  /\ idealMaxBandwidthKbps' = kbps
        /\ optimalParameters' = ref
        /\ heap' = Collect([heap EXCEPT ![ref] =
                               [OptimalParametersFor(numParticipants) EXCEPT
                                   !.maxEncodeBitrateKbps =
                                       MaxBandwidthKbpsOf(numParticipants, kbps,
                                                          hasBandwidthPriority)]],
                           {ref, parametersInEffect, returnedParameters})
        /\ history' = [history EXCEPT !.lastCall = "setIdealMaxBandwidthKbps"]
        /\ UNCHANGED <<numParticipants, parametersInEffect, returnedParameters,
                       hasBandwidthPriority, scaleResolution, encodingParamMap,
                       transceiverController, hasVideoInput, captureSetting,
                       transceiverEncoding, videoCodecPreferences,
                       wantsResubscribeForVideoCodecPreferenceChange, taskRunVars>>

\* setIdealMaxBandwidthKbps(idealMaxBandwidthKbps), lines 156-158
setIdealMaxBandwidthKbps(kbps) ==
    /\ idealMaxBandwidthKbps' = kbps
    /\ history' = [history EXCEPT !.lastCall = "setIdealMaxBandwidthKbps"]
    /\ UNCHANGED <<numParticipants, heap, optimalParameters, parametersInEffect,
                   returnedParameters, hasBandwidthPriority, scaleResolution,
                   encodingParamMap, transceiverController, hasVideoInput,
                   captureSetting, transceiverEncoding, videoCodecPreferences,
                   wantsResubscribeForVideoCodecPreferenceChange, taskRunVars>>

\* setHasBandwidthPriority(hasBandwidthPriority), lines 160-162
setHasBandwidthPriority(priority) ==
    /\ hasBandwidthPriority' = priority
    /\ history' = [history EXCEPT !.lastCall = "setHasBandwidthPriority"]
    /\ UNCHANGED <<numParticipants, heap, optimalParameters, parametersInEffect,
                   returnedParameters, idealMaxBandwidthKbps, scaleResolution,
                   encodingParamMap, transceiverController, hasVideoInput,
                   captureSetting, transceiverEncoding, videoCodecPreferences,
                   wantsResubscribeForVideoCodecPreferenceChange, taskRunVars>>

\* setTransceiverController(transceiverController), lines 164-166
setTransceiverController(controller) ==
    /\ transceiverController' = controller
    /\ history' = [history EXCEPT !.lastCall = "setTransceiverController"]
    /\ UNCHANGED <<numParticipants, heap, optimalParameters, parametersInEffect,
                   returnedParameters, idealMaxBandwidthKbps, hasBandwidthPriority,
                   scaleResolution, encodingParamMap, hasVideoInput, captureSetting,
                   transceiverEncoding, videoCodecPreferences,
                   wantsResubscribeForVideoCodecPreferenceChange, taskRunVars>>

\* updateTransceiverController() without the return of lines 170-172: the
\* controller is dereferenced at line 181 whether it is set or not
updateTransceiverController_WithoutSettingsCheck ==
    LET encodingParams == calculateEncodingParameters(numParticipants, captureSetting)
        push == transceiverController /\ shouldUpdateEndcodingParameters(encodingParams)
    IN  /\ encodingParamMap' = IF push THEN encodingParams ELSE encodingParamMap
        /\ transceiverEncoding' = IF push THEN <<encodingParams>> ELSE transceiverEncoding
        /\ history' = [history EXCEPT !.lastCall = "updateTransceiverController",
                                      !.pushed = push,
                                      !.raised = ~transceiverController]
        /\ UNCHANGED <<numParticipants, heap, optimalParameters, parametersInEffect,
                       returnedParameters, idealMaxBandwidthKbps, hasBandwidthPriority,
                       scaleResolution, transceiverController, hasVideoInput,
                       captureSetting, videoCodecPreferences,
                       wantsResubscribeForVideoCodecPreferenceChange, taskRunVars>>

\* updateTransceiverController(), lines 168-178; setEncodingParameters makes
\* the pushed encoding the sender's encoding. The controller, its transceiver
\* and its sender are dereferenced (lines 176, 181-183) only past the return
\* of line 171, where all of them exist, so the call raises nothing.
updateTransceiverController ==
    LET settings == getStreamCaptureSetting
        encodingParams == calculateEncodingParameters(numParticipants, settings[1])
        push == settings # <<>> /\ shouldUpdateEndcodingParameters(encodingParams)
    IN  /\ encodingParamMap' = IF push THEN encodingParams ELSE encodingParamMap
        /\ transceiverEncoding' = IF push THEN <<encodingParams>> ELSE transceiverEncoding
        /\ history' = [history EXCEPT !.lastCall = "updateTransceiverController",
                                      !.pushed = push, !.raised = FALSE]
        /\ UNCHANGED <<numParticipants, heap, optimalParameters, parametersInEffect,
                       returnedParameters, idealMaxBandwidthKbps, hasBandwidthPriority,
                       scaleResolution, transceiverController, hasVideoInput,
                       captureSetting, videoCodecPreferences,
                       wantsResubscribeForVideoCodecPreferenceChange, taskRunVars>>

\* setVideoCodecPreferences(preferences), lines 226-229
setVideoCodecPreferences(preferences) ==
    /\ videoCodecPreferences' = preferences
    /\ wantsResubscribeForVideoCodecPreferenceChange' = TRUE
    /\ history' = [history EXCEPT !.lastCall = "setVideoCodecPreferences",
                                  !.prefEvent = "set", !.lastSet = preferences]
    /\ UNCHANGED <<numParticipants, heap, optimalParameters, parametersInEffect,
                   returnedParameters, idealMaxBandwidthKbps, hasBandwidthPriority,
                   scaleResolution, encodingParamMap, transceiverController,
                   hasVideoInput, captureSetting, transceiverEncoding, taskRunVars>>

\* chooseVideoCodecPreferences() that leaves the pending mark as it is
chooseVideoCodecPreferences_KeepsMark ==
    /\ history' = [history EXCEPT !.lastCall = "chooseVideoCodecPreferences",
                                  !.prefEvent = "read",
                                  !.chosen = videoCodecPreferences,
                                  !.acknowledged =
                                      wantsResubscribeForVideoCodecPreferenceChange]
    /\ UNCHANGED <<numParticipants, heap, optimalParameters, parametersInEffect,
                   returnedParameters, idealMaxBandwidthKbps, hasBandwidthPriority,
                   scaleResolution, encodingParamMap, transceiverController,
                   hasVideoInput, captureSetting, transceiverEncoding,
                   videoCodecPreferences,
                   wantsResubscribeForVideoCodecPreferenceChange, taskRunVars>>

\* chooseVideoCodecPreferences(), lines 231-234
chooseVideoCodecPreferences ==
    /\ wantsResubscribeForVideoCodecPreferenceChange' = FALSE
    /\ history' = [history EXCEPT !.lastCall = "chooseVideoCodecPreferences",
                                  !.prefEvent = "read",
                                  !.chosen = videoCodecPreferences,
                                  !.acknowledged =
                                      wantsResubscribeForVideoCodecPreferenceChange]
    /\ UNCHANGED <<numParticipants, heap, optimalParameters, parametersInEffect,
                   returnedParameters, idealMaxBandwidthKbps, hasBandwidthPriority,
                   scaleResolution, encodingParamMap, transceiverController,
                   hasVideoInput, captureSetting, transceiverEncoding,
                   videoCodecPreferences, taskRunVars>>

\* ------------------------------------------------------------ DemoMeetingApp
\* the value of a field that holds no VideoCodecCapability
Undefined ==
    [codecName |-> "undefined", mimeType |-> "undefined", clockRate |-> 0,
     sdpFmtpLine |-> {}]

\* the option values the switch of lines 621-640 knows
VideoCodecSelectValues ==
    {"vp8", "h264ConstrainedBaselineProfile", "vp9Profile0", "vp9Profile1",
     "vp9Profile2", "av1MainProfile"}

\* lines 621-640: the switch has no default branch
PreferredVideoCodecAfterSwitch(chosenVideoSendCodec, preferred) ==
    CASE chosenVideoSendCodec = "vp8" -> vp8
      [] chosenVideoSendCodec = "h264ConstrainedBaselineProfile"
                                      -> h264ConstrainedBaselineProfile
      [] chosenVideoSendCodec = "vp9Profile0" -> vp9Profile0
      [] chosenVideoSendCodec = "vp9Profile1" -> vp9Profile1
      [] chosenVideoSendCodec = "vp9Profile2" -> vp9Profile2
      [] chosenVideoSendCodec = "av1MainProfile" -> av1MainProfile
      [] OTHER -> preferred

\* field initialisers, line 294; no document is held
AppIdle ==
    /\ preferredVideoCodec = Undefined
    /\ appStep = "constructed"

DocumentsIdle ==
    /\ docs = <<>>
    /\ copy = 0
    /\ edit = <<>>

\* constructor, lines 396-410: a recorder or broadcaster authenticates at
\* once, everyone else is shown the form
AppStarts(recorderOrBroadcaster) ==
    /\ appStep = "constructed"
    /\ appStep' = IF recorderOrBroadcaster THEN "authenticating" ELSE "flow-authenticate"
    /\ UNCHANGED <<preferredVideoCodec, documentVars, policyVars, history,
                   videoCodecPreferences, wantsResubscribeForVideoCodecPreferenceChange,
                   sdpOfferInit, requiresDisablingH264Encoding,
                   hasChooseVideoCodecPreferences, audioProfile, cancelPromise, pc,
                   promise, reason, inner, endpointError, thrown, delivered, steps,
                   cancels, cancelledAt>>

\* the submit handler of the form, lines 620-647
SubmitAuthenticateForm(chosenVideoSendCodec) ==
    /\ appStep = "flow-authenticate"
    /\ preferredVideoCodec' =
           PreferredVideoCodecAfterSwitch(chosenVideoSendCodec, preferredVideoCodec)
    /\ appStep' = "authenticating"
    /\ UNCHANGED <<documentVars, policyVars, history,
                   videoCodecPreferences, wantsResubscribeForVideoCodecPreferenceChange,
                   sdpOfferInit, requiresDisablingH264Encoding,
                   hasChooseVideoCodecPreferences, audioProfile, cancelPromise, pc,
                   promise, reason, inner, endpointError, thrown, delivered, steps,
                   cancels, cancelledAt>>

\* initializeMeetingSession, lines 1647-1661: the new policy is given the
\* one-element list [this.preferredVideoCodec] (policy lines 226-229)
initializeMeetingSession ==
    /\ appStep = "authenticating"
    /\ appStep' = "session"
    /\ videoCodecPreferences' = <<preferredVideoCodec>>
    /\ wantsResubscribeForVideoCodecPreferenceChange' = TRUE
    /\ history' = [history EXCEPT !.lastCall = "setVideoCodecPreferences",
                                  !.prefEvent = "set",
                                  !.lastSet = <<preferredVideoCodec>>]
    /\ UNCHANGED <<preferredVideoCodec, documentVars, policyVars,
                   sdpOfferInit, requiresDisablingH264Encoding,
                   hasChooseVideoCodecPreferences, audioProfile, cancelPromise, pc,
                   promise, reason, inner, endpointError, thrown, delivered, steps,
                   cancels, cancelledAt>>

\* ------------------------------------------------- SDP documents of a caller
\* what is not an SDP document
beyondDocuments ==
    <<appVars, policyVars, history, videoCodecPreferences,
      wantsResubscribeForVideoCodecPreferenceChange, sdpOfferInit,
      requiresDisablingH264Encoding, hasChooseVideoCodecPreferences, audioProfile,
      cancelPromise, pc, promise, reason, inner, endpointError, thrown, delivered,
      steps, cancels, cancelledAt>>

\* payload-type orders of a sending video section as browsers write them
VideoOrders ==
    { <<96, 97, 98, 99>>, <<98, 99, 96, 97>>, <<100, 101, 96, 97>>, <<96, 98>>,
      <<96, 97, 102, 103, 100, 101, 98, 99>> }

SendSections ==
    {<<>>}
    \cup { <<Section("video", "sendrecv", payloads, attributes)>> :
             payloads \in VideoOrders,
             attributes \in { <<"candidate", "ssrc msid">>,
                              <<"candidate", "ssrc msid", "msid">>,
                              <<"ssrc msid">>,
                              <<"candidate">> } }

OtherVideoSections ==
    { <<>>,
      <<Section("video", "recvonly", <<96, 97>>, <<"candidate">>)>>,
      <<Section("video", "recvonly", <<96, 97>>, <<>>)>>,
      <<Section("video", "inactive", <<>>, <<>>)>> }

AudioSections ==
    { <<>>, <<Section("audio", "sendrecv", <<111>>, <<"candidate">>)>> }

SDPDocuments ==
    { SessionDescription(audio \o send \o other) :
          audio \in AudioSections, send \in SendSections, other \in OtherVideoSections }

NoEdit ==
    [op |-> "new", target |-> "original", preferences |-> <<>>,
     before |-> SessionDescription(<<>>), count |-> 0]

\* the object a caller's name stands for
Ref(target) == IF target = "original" THEN 1 ELSE copy

Targets == {"original", "copy"}

\* a mutating operation on the object of `target`, which holds `result` afterwards
Applied(op, target, preferences, result) ==
    /\ edit.count < MaxEdits
    /\ Ref(target) # 0
    /\ docs' = [docs EXCEPT ![Ref(target)] = result]
    /\ edit' = [op |-> op, target |-> target, preferences |-> preferences,
                before |-> docs[Ref(target)], count |-> edit.count + 1]
    /\ UNCHANGED <<copy, beyondDocuments>>

\* original.clone()
Clone ==
    /\ edit.count < MaxEdits
    /\ copy = 0
    /\ copy' = clone(1)
    /\ docs' = [docs EXCEPT ![clone(1)] = docs[1]]
    /\ edit' = [op |-> "clone", target |-> "copy", preferences |-> <<>>,
                before |-> docs[1], count |-> edit.count + 1]
    /\ UNCHANGED beyondDocuments

WithVideoSendCodecPreferences(target, preferences) ==
    Applied("withVideoSendCodecPreferences", target, preferences,
            WithParsedForm(docs[Ref(target)],
                           withVideoSendCodecPreferences(ParsedForm(docs[Ref(target)]),
                                                         preferences)))

PreferH264IfExists(target) ==
    Applied("preferH264IfExists", target, <<>>,
            WithParsedForm(docs[Ref(target)],
                           preferH264IfExists(ParsedForm(docs[Ref(target)]))))

RemoveH264SupportFromSendSection(target) ==
    Applied("removeH264SupportFromSendSection", target, <<>>,
            WithParsedForm(docs[Ref(target)],
                           removeH264SupportFromSendSection(ParsedForm(docs[Ref(target)]))))

WithAudioMaxAverageBitrate(target, maxAverageBitrate) ==
    Applied("withAudioMaxAverageBitrate", target, <<>>,
            WithParsedForm(docs[Ref(target)],
                           withAudioMaxAverageBitrate(ParsedForm(docs[Ref(target)]),
                                                      maxAverageBitrate)))

WithUnifiedPlanFormat(target) ==
    Applied("withUnifiedPlanFormat", target, <<>>,
            withUnifiedPlanFormat(docs[Ref(target)]))

\* the task's policy has been used before: its preference fields hold any
\* list, acknowledged or not
Init ==
    /\ TaskInit
    /\ PolicyFieldsInit
    /\ idealMaxBandwidthKbps = 1400
    /\ hasBandwidthPriority = FALSE
    /\ scaleResolution = TRUE
    /\ NoLocalVideo
    /\ AppIdle
    /\ DocumentsIdle
    /\ history = [NoHistory EXCEPT
                     !.prefEvent = IF wantsResubscribeForVideoCodecPreferenceChange
                                   THEN "set" ELSE "none",
                     !.lastSet = videoCodecPreferences]

\* a task is single-use: its caller runs it once
Next ==
    \/ Run(1)
    \/ Cancel
    \/ \E r \in Runs : EndpointResolves(r)
    \/ \E r \in Runs, e \in EndpointErrors : EndpointRejects(r, e)
    \/ \E r \in Runs : RunReturns(r)

Spec == Init /\ [][Next]_vars

\* a caller that invokes run() again, whatever the earlier runs' states
RunAgain == \E r \in Runs : (\A q \in 1..(r - 1) : pc[q] # "pending") /\ Run(r)

NextReentrant ==
    \/ RunAgain
    \/ Cancel
    \/ \E r \in Runs : EndpointResolves(r)
    \/ \E r \in Runs, e \in EndpointErrors : EndpointRejects(r, e)
    \/ \E r \in Runs : RunReturns(r)

SpecReentrant == Init /\ [][NextReentrant]_vars

\* a task no run() has touched, with a fixed context
TaskIdle ==
    /\ sdpOfferInit = [type |-> "offer", sdp |-> Document(<<96, 97, 98, 99>>, TRUE)]
    /\ requiresDisablingH264Encoding = FALSE
    /\ hasChooseVideoCodecPreferences = TRUE
    /\ audioProfile = NoAudioProfile
    /\ cancelPromise = 0
    /\ pc = [r \in Runs |-> "pending"]
    /\ promise = [r \in Runs |-> "none"]
    /\ reason = [r \in Runs |-> ""]
    /\ inner = [r \in Runs |-> "idle"]
    /\ endpointError = [r \in Runs |-> ""]
    /\ thrown = [r \in Runs |-> ""]
    /\ delivered = [r \in Runs |-> <<>>]
    /\ steps = [r \in Runs |-> <<>>]
    /\ cancels = 0
    /\ cancelledAt = [r \in Runs |-> {}]

\* a freshly constructed policy, lines 48-68
InitPolicy ==
    /\ TaskIdle
    /\ PolicyFieldsInit
    /\ idealMaxBandwidthKbps = 1400
    /\ hasBandwidthPriority = FALSE
    /\ scaleResolution \in BOOLEAN
    /\ hasVideoInput \in BOOLEAN
    /\ captureSetting \in CaptureSettings
    /\ videoCodecPreferences = <<>>
    /\ wantsResubscribeForVideoCodecPreferenceChange = FALSE
    /\ history = NoHistory
    /\ appStep = "session"
    /\ preferredVideoCodec = Undefined
    /\ DocumentsIdle

\* one more operation of the explored run
Counted == calls < MaxCalls /\ calls' = calls + 1

\* the operations of the policy, in any order the caller likes
NextPolicy ==
    \/ Counted /\ \E count \in 0..MaxPublishers : updateIndex(count)
    \/ Counted /\ chooseCaptureAndEncodeParameters
    \/ Counted /\ ChangeReturnedParameters
    \/ Counted /\ MaxBandwidthKbpsCall
    \/ Counted /\ \E kbps \in {600, 1400} : setIdealMaxBandwidthKbps(kbps)
    \/ Counted /\ \E priority \in BOOLEAN : setHasBandwidthPriority(priority)
    \/ Counted /\ \E controller \in BOOLEAN : setTransceiverController(controller)
    \/ Counted /\ updateTransceiverController
    \/ Counted /\ \E preferences \in {<<>>, <<vp8>>, <<vp9Profile0, vp8>>} :
                       setVideoCodecPreferences(preferences)
    \/ Counted /\ chooseVideoCodecPreferences

SpecPolicy == InitPolicy /\ [][NextPolicy]_vars

\* a policy configured before the session starts, with its controller set
InitEvaluate ==
    /\ TaskIdle
    /\ numParticipants = 0
    /\ heap = [r \in Refs |-> ZeroParameter]
    /\ optimalParameters = 1
    /\ parametersInEffect = 2
    /\ returnedParameters = 0
    /\ idealMaxBandwidthKbps \in IdealBandwidths
    /\ hasBandwidthPriority \in BOOLEAN
    /\ scaleResolution \in BOOLEAN
    /\ encodingParamMap = [maxBitrate |-> 0, scaleResolutionDownBy |-> <<0, 0>>]
    /\ transceiverController \in BOOLEAN
    /\ hasVideoInput \in BOOLEAN
    /\ captureSetting \in CaptureSettings
    /\ transceiverEncoding = <<>>
    /\ calls = 0
    /\ videoCodecPreferences = <<>>
    /\ wantsResubscribeForVideoCodecPreferenceChange = FALSE
    /\ history = NoHistory
    /\ appStep = "session"
    /\ preferredVideoCodec = Undefined
    /\ DocumentsIdle

\* the numeric results over the whole range of participant counts
NextEvaluate ==
    \/ calls' = calls /\ \E count \in 0..MaxEvaluatedPublishers : updateIndex(count)
    \/ calls' = calls /\ MaxBandwidthKbpsCall

SpecEvaluate == InitEvaluate /\ [][NextEvaluate]_vars

\* the demo application from its construction on
InitDemo ==
    /\ TaskIdle
    /\ PolicyFieldsInit
    /\ idealMaxBandwidthKbps = 1400
    /\ hasBandwidthPriority = FALSE
    /\ scaleResolution = TRUE
    /\ NoLocalVideo
    /\ videoCodecPreferences = <<>>
    /\ wantsResubscribeForVideoCodecPreferenceChange = FALSE
    /\ history = NoHistory
    /\ AppIdle
    /\ DocumentsIdle

\* start-up, then the session uses its policy
NextDemo ==
    \/ \E recorderOrBroadcaster \in BOOLEAN : AppStarts(recorderOrBroadcaster)
    \/ \E chosenVideoSendCodec \in VideoCodecSelectValues :
           SubmitAuthenticateForm(chosenVideoSendCodec)
    \/ initializeMeetingSession
    \/ appStep = "session" /\ NextPolicy

SpecDemo == InitDemo /\ [][NextDemo]_vars

\* a caller holding one document, which it may clone and mutate
InitSDP ==
    /\ TaskIdle
    /\ PolicyFieldsInit
    /\ idealMaxBandwidthKbps = 1400
    /\ hasBandwidthPriority = FALSE
    /\ scaleResolution = TRUE
    /\ NoLocalVideo
    /\ videoCodecPreferences = <<>>
    /\ wantsResubscribeForVideoCodecPreferenceChange = FALSE
    /\ history = NoHistory
    /\ AppIdle
    /\ \E d \in SDPDocuments : docs = <<d, SessionDescription(<<>>)>>
    /\ copy = 0
    /\ edit = NoEdit

NextSDP ==
    \/ Clone
    \/ \E target \in Targets, preferences \in PreferenceLists :
           WithVideoSendCodecPreferences(target, preferences)
    \/ \E target \in Targets : PreferH264IfExists(target)
    \/ \E target \in Targets : RemoveH264SupportFromSendSection(target)
    \/ \E target \in Targets : WithAudioMaxAverageBitrate(target, 64000)
    \/ \E target \in Targets : WithUnifiedPlanFormat(target)

SpecSDP == InitSDP /\ [][NextSDP]_vars

\* ------------------------------------------------------------------ claims

\* C1: a cancel() that comes while the endpoint call of a run is in flight
\* makes that run fail with the cancellation error instead of completing,
\* whatever the endpoint answers later.
C1_CancelInFlightFailsRun ==
    \A r \in Runs :
        "inflight" \in cancelledAt[r] =>
            /\ promise[r] = "rejected"
            /\ reason[r] = CancelError
            /\ pc[r] = "returned" => thrown[r] = CancelError /\ State(r) = "Cancelled"

C1_Witness ==
    /\ "inflight" \in cancelledAt[1]
    /\ inner[1] = "resolved"
    /\ pc[1] = "returned"
    /\ thrown[1] = CancelError

\* C2: one run() invokes the endpoint's setLocalDescription at most once,
\* whatever its outcome and however many cancel() calls come; a rejection
\* is not retried.
C2_EndpointInvokedAtMostOnce ==
    \A r \in Runs :
        /\ Len(delivered[r]) <= 1
        /\ inner[r] = "rejected" => Len(delivered[r]) = 1

C2_Witness ==
    /\ State(1) = "Failed"
    /\ cancels > 1
    /\ Len(delivered[1]) = 1

\* C3: a cancel() that comes after the endpoint call resolved successfully
\* changes nothing: the run stays completed, nothing is thrown to the caller
\* and the endpoint is not called again.
C3_CancelAfterCommitHasNoEffect ==
    /\ [][\A r \in Runs :
            (cancels' # cancels /\ inner[r] = "resolved" /\ promise[r] = "fulfilled") =>
                /\ promise'[r] = "fulfilled"
                /\ reason'[r] = reason[r]
                /\ thrown'[r] = thrown[r]
                /\ pc'[r] = pc[r]
                /\ delivered'[r] = delivered[r]
                /\ inner'[r] = inner[r]]_vars
    /\ [](\A r \in Runs : State(r) = "Committed" => thrown[r] = "")

C3_Witness ==
    /\ "resolved" \in cancelledAt[1]
    /\ State(1) = "Committed"
    /\ thrown[1] = ""

\* C4: a run moves only Pending -> Running -> Committed, Cancelled or Failed;
\* the three are terminal, and once the awaited promise has settled no later
\* event (an endpoint answer after a cancel, a cancel after a rejection)
\* changes the outcome.
C4_StatesAndTerminalOutcome ==
    [][\A r \in Runs :
        /\ \/ State(r)' = State(r)
           \/ State(r) = "Pending" /\ State(r)' = "Running"
           \/ State(r) = "Running" /\ Terminal(r)'
        /\ promise[r] \in {"fulfilled", "rejected"} =>
               promise'[r] = promise[r] /\ reason'[r] = reason[r]
        /\ (pc[r] = "awaiting" /\ pc'[r] = "returned") =>
               State(r)' = (IF promise[r] = "fulfilled" THEN "Committed"
                            ELSE IF reason[r] = CancelError THEN "Cancelled"
                            ELSE "Failed")]_vars

C4_Witness ==
    /\ State(1) = "Cancelled"
    /\ inner[1] = "rejected"
    /\ cancelledAt[1] = {"inflight", "rejected"}

\* C5: when the endpoint rejects and no cancel() fired before, run() fails
\* with exactly the endpoint's error.
C5_EndpointRejectionPropagatedUnchanged ==
    \A r \in Runs :
        (inner[r] = "rejected" /\ "inflight" \notin cancelledAt[r]) =>
            /\ endpointError[r] \in EndpointErrors
            /\ promise[r] = "rejected"
            /\ reason[r] = endpointError[r]
            /\ pc[r] = "returned" => thrown[r] = endpointError[r] /\ State(r) = "Failed"

C5_Witness ==
    /\ State(1) = "Failed"
    /\ thrown[1] = "OperationError"
    /\ cancelledAt[1] = {"pending"}
    /\ steps[1] # <<>>

\* C6: whenever an endpoint call of the task is in flight and its run not yet
\* settled, the live hook is the hook of the latest such call: a hook goes
\* away only through its own run settling or through cancel().
C6_HookBelongsToCallInFlight ==
    \A r \in Runs :
        (/\ inner[r] = "awaiting"
         /\ promise[r] = "pending"
         /\ \A q \in Runs : q > r => pc[q] = "pending")
        => cancelPromise = r

\* C7: a second run() invokes the endpoint only when every earlier run has
\* reached a terminal state.
C7_OneRunInFlight ==
    [][\A r \in Runs :
        (Len(delivered[r]) = 0 /\ Len(delivered'[r]) > 0) =>
            \A q \in Runs \ {r} : pc[q] \in {"pending", "returned"}]_vars

\* the canonical place of each step of run()
StepRank(step) ==
    CASE step = "removeH264"          -> 1
      [] step = "codecPreferences"    -> 2
      [] step = "maxAverageBitrate"   -> 3
      [] step = "stereo"              -> 4
      [] step = "hook"                -> 5
      [] step = "setLocalDescription" -> 6

\* C8: a run that has started has done all its mutations, in the order H.264
\* removal, codec preferences, audio bitrate, stereo, then registered the hook
\* and called the endpoint, with no state in between that a cancel() could
\* meet; the description delivered carries the mutations.
C8_MutationsInOrderBeforeEndpointCall ==
    \A r \in Runs :
        LET s == steps[r] IN
        /\ \A i, j \in DOMAIN s : i < j => StepRank(s[i]) < StepRank(s[j])
        /\ pc[r] = "pending" <=> s = <<>>
        /\ s # <<>> =>
              /\ Len(s) >= 2
              /\ s[Len(s) - 1] = "hook"
              /\ s[Len(s)] = "setLocalDescription"
              /\ Len(delivered[r]) = 1
              /\ requiresDisablingH264Encoding <=> s[1] = "removeH264"
              /\ requiresDisablingH264Encoding =>
                     \A pt \in SeqToSet(delivered[r][1].sdp.video) : ~IsH264(pt)
        /\ Phase(r) \in {"pending", "inflight", "resolved", "rejected"}

C8_Witness ==
    steps[1] = <<"removeH264", "codecPreferences", "maxAverageBitrate", "stereo",
                 "hook", "setLocalDescription">>

\* the offer after step 1
OfferAfterStep1 ==
    IF requiresDisablingH264Encoding
    THEN removeH264SupportFromSendSection(sdpOfferInit.sdp)
    ELSE sdpOfferInit.sdp

\* C9: the reordering is applied iff the policy has chooseVideoCodecPreferences
\* and it returns a non-empty list; otherwise the step is a no-op and the
\* video payload order delivered is that of the offer after step 1.
C9_CodecPreferencesAppliedIffNonEmpty ==
    \A r \in Runs :
        pc[r] # "pending" =>
            LET applies == hasChooseVideoCodecPreferences /\ videoCodecPreferences # <<>>
                video   == delivered[r][1].sdp.video
            IN  /\ applies <=> \E i \in DOMAIN steps[r] : steps[r][i] = "codecPreferences"
                /\ ~applies => video = OfferAfterStep1.video
                /\ applies => video = withVideoSendCodecPreferences(
                                          OfferAfterStep1, videoCodecPreferences).video

C9_Witness ==
    /\ pc[1] # "pending"
    /\ hasChooseVideoCodecPreferences
    /\ videoCodecPreferences = <<>>
    /\ ~requiresDisablingH264Encoding
    /\ delivered[1][1].sdp.video = <<96, 97, 102, 103, 100, 101, 98, 99>>

\* the position of a step in a run's history (0: not executed)
StepIndex(r, step) ==
    IF \E i \in DOMAIN steps[r] : steps[r][i] = step
    THEN CHOOSE i \in DOMAIN steps[r] : steps[r][i] = step
    ELSE 0

\* C10: the audio max-average-bitrate is set, to the profile's
\* audioBitrateBps, iff an audio profile is configured; the stereo munging is
\* applied iff the profile is configured and stereo, and then after the
\* bitrate step; with no profile neither is applied.
C10_AudioProfileSteps ==
    \A r \in Runs :
        pc[r] # "pending" =>
            LET sdp == delivered[r][1].sdp
                hasAudio == sdpOfferInit.sdp.audio
            IN  /\ StepIndex(r, "maxAverageBitrate") > 0 <=> audioProfile.configured
                /\ StepIndex(r, "stereo") > 0 <=>
                       (audioProfile.configured /\ audioProfile.stereo)
                /\ StepIndex(r, "stereo") > 0 =>
                       StepIndex(r, "stereo") = StepIndex(r, "maxAverageBitrate") + 1
                /\ sdp.maxaveragebitrate =
                       (IF audioProfile.configured /\ hasAudio
                        THEN audioProfile.audioBitrateBps
                        ELSE sdpOfferInit.sdp.maxaveragebitrate)
                /\ sdp.stereo =
                       (IF audioProfile.configured /\ audioProfile.stereo /\ hasAudio
                        THEN TRUE
                        ELSE sdpOfferInit.sdp.stereo)

C10_Witness ==
    /\ pc[1] # "pending"
    /\ audioProfile = [configured |-> TRUE, audioBitrateBps |-> 128000, stereo |-> TRUE]
    /\ delivered[1][1].sdp.maxaveragebitrate = 128000
    /\ delivered[1][1].sdp.stereo

\* C11: with the H.264 workaround flag false, no or an empty codec preference
\* list and no audio profile, the description delivered to the endpoint has
\* type 'offer' and exactly the text of the context's candidate offer; and
\* no step of a run changes the context's candidate offer.
C11_UntouchedOfferDeliveredAndCandidateKept ==
    /\ [](\A r \in Runs :
             pc[r] # "pending" =>
                 /\ delivered[r][1].type = "offer"
                 /\ ( /\ ~requiresDisablingH264Encoding
                      /\ (~hasChooseVideoCodecPreferences \/ videoCodecPreferences = <<>>)
                      /\ ~audioProfile.configured )
                    => delivered[r][1].sdp = sdpOfferInit.sdp)
    /\ [][sdpOfferInit' = sdpOfferInit]_vars

C11_Witness ==
    /\ pc[1] # "pending"
    /\ ~requiresDisablingH264Encoding
    /\ hasChooseVideoCodecPreferences
    /\ videoCodecPreferences = <<>>
    /\ ~audioProfile.configured
    /\ 98 \in SeqToSet(sdpOfferInit.sdp.video)
    /\ delivered[1][1] = sdpOfferInit

\* C12: in every reachable state of the policy, wantsResubscribe() is true
\* iff optimalParameters differs from parametersInEffect or a
\* codec-preference change has been set and not yet read.
C12_WantsResubscribeIffDiffersOrPending ==
    wantsResubscribe <=>
        \/ heap[optimalParameters] # heap[parametersInEffect]
        \/ history.prefEvent = "set"

C12_Witness ==
    /\ history.lastCall = "chooseCaptureAndEncodeParameters"
    /\ heap[optimalParameters] = heap[parametersInEffect]
    /\ heap[optimalParameters].captureWidth = 320
    /\ history.prefEvent = "set"
    /\ wantsResubscribe

\* C13: chooseCaptureAndEncodeParameters() sets parametersInEffect to a copy
\* of optimalParameters and returns a separate copy equal to it; right after
\* the call, with no codec-preference change pending, wantsResubscribe() is
\* false; a later change to the returned value changes neither
\* parametersInEffect nor optimalParameters.
C13_CommitCopiesAndReturnsSeparateCopy ==
    /\ [](history.lastCall = "chooseCaptureAndEncodeParameters" =>
             /\ heap[parametersInEffect] = heap[optimalParameters]
             /\ parametersInEffect # optimalParameters
             /\ heap[returnedParameters] = heap[optimalParameters]
             /\ returnedParameters \notin {parametersInEffect, optimalParameters}
             /\ (history.prefEvent # "set" => ~wantsResubscribe))
    /\ [][(history'.lastCall = "changeReturnedParameters"
             /\ heap'[returnedParameters] # heap[returnedParameters]) =>
                /\ heap'[parametersInEffect'] = heap[parametersInEffect]
                /\ heap'[optimalParameters'] = heap[optimalParameters]]_vars

C13_Witness ==
    /\ history.lastCall = "changeReturnedParameters"
    /\ heap[returnedParameters].captureFrameRate = 30
    /\ heap[parametersInEffect].captureFrameRate = captureFrameRate
    /\ heap[parametersInEffect].captureWidth = 640
    /\ heap[optimalParameters] = heap[parametersInEffect]
    /\ ~wantsResubscribe

\* C14: parametersInEffect changes only through
\* chooseCaptureAndEncodeParameters(); every other operation of the policy
\* leaves it unchanged.
C14_InEffectChangesOnlyByCommit ==
    [][(\/ heap'[parametersInEffect'] # heap[parametersInEffect]
        \/ parametersInEffect' # parametersInEffect) =>
           history'.lastCall = "chooseCaptureAndEncodeParameters"]_vars

C14_Witness ==
    /\ history.lastCall = "updateIndex"
    /\ heap[parametersInEffect].captureWidth = 640
    /\ heap[optimalParameters].captureWidth = 320

\* C20: setVideoCodecPreferences(list) stores the list and marks a change as
\* pending, so wantsResubscribe() is true from then on;
\* chooseVideoCodecPreferences() returns the most recently stored list (the
\* empty list if none was ever set) and clears the mark; the mark stays set
\* until such a read.
C20_PreferenceChangePendingUntilRead ==
    /\ []( /\ history.prefEvent = "set" =>
                /\ wantsResubscribeForVideoCodecPreferenceChange
                /\ wantsResubscribe
                /\ videoCodecPreferences = history.lastSet
           /\ history.prefEvent = "none" => videoCodecPreferences = <<>>
           /\ history.lastCall = "chooseVideoCodecPreferences" =>
                /\ history.chosen = history.lastSet
                /\ ~wantsResubscribeForVideoCodecPreferenceChange )
    /\ [][(wantsResubscribeForVideoCodecPreferenceChange
             /\ ~wantsResubscribeForVideoCodecPreferenceChange') =>
                history'.lastCall = "chooseVideoCodecPreferences"]_vars

C20_Witness ==
    /\ history.lastCall = "chooseVideoCodecPreferences"
    /\ history.chosen = <<vp9Profile0, vp8>>
    /\ ~wantsResubscribeForVideoCodecPreferenceChange

\* the local capture is active: the device has a video input
LocalCaptureActive == hasVideoInput

\* C15 as stated: after updateIndex(videoIndex), numParticipants is the
\* index's count of video-publishing participants excluding self, plus 1 if
\* local capture is active and plus 0 otherwise, and optimalParameters is
\* recomputed from that count.
C15_CountPlusOneIffLocalCaptureActive ==
    history.lastCall = "updateIndex" =>
        /\ numParticipants = history.count + (IF LocalCaptureActive THEN 1 ELSE 0)
        /\ heap[optimalParameters] = OptimalParametersFor(numParticipants)

\* C15, amended: after updateIndex(videoIndex), numParticipants is the
\* index's count plus 1 if no transceiver controller is set or the
\* controller reports a video input, and plus 0 otherwise; optimalParameters
\* is recomputed from that count (width, height, frame rate, max bandwidth,
\* scale).
C15_CountPlusOneUnlessControllerReportsNoInput ==
    history.lastCall = "updateIndex" =>
        /\ numParticipants =
               history.count +
               (IF ~transceiverController \/ LocalCaptureActive THEN 1 ELSE 0)
        /\ LET n == numParticipants
               p == heap[optimalParameters]
           IN  /\ p.captureWidth = captureWidth(n)
               /\ p.captureHeight = captureHeight(n)
               /\ p.captureFrameRate = captureFrameRate
               /\ p.maxEncodeBitrateKbps = maxBandwidthKbps
               /\ ~p.isSimulcast
               /\ p.scaleResolutionDownBy =
                      (IF getStreamCaptureSetting # <<>>
                       THEN calculateEncodingParameters(n, captureSetting)
                                .scaleResolutionDownBy
                       ELSE One)

C15_Witness ==
    /\ history.lastCall = "updateIndex"
    /\ transceiverController
    /\ ~hasVideoInput
    /\ history.count = 3
    /\ numParticipants = 3
    /\ heap[optimalParameters].maxEncodeBitrateKbps = 933

\* C16: after any updateIndex, optimalParameters has capture size 640x384
\* when numParticipants <= 4 and 320x192 when numParticipants > 4, and frame
\* rate 15; no other capture size or frame rate is ever produced (before the
\* first updateIndex the constructor's 0x0 at rate 0 is held).
C16_CaptureSizeAndFrameRate ==
    LET p    == heap[optimalParameters]
        size == <<p.captureWidth, p.captureHeight, p.captureFrameRate>>
    IN  /\ size \in {<<0, 0, 0>>, <<640, 384, 15>>, <<320, 192, 15>>}
        /\ (size # <<0, 0, 0>> /\ numParticipants <= 4) => size = <<640, 384, 15>>
        /\ (size # <<0, 0, 0>> /\ numParticipants > 4) => size = <<320, 192, 15>>
        /\ history.lastCall = "updateIndex" => size # <<0, 0, 0>>

C16_Witness ==
    /\ history.lastCall = "updateIndex"
    /\ numParticipants = 5
    /\ heap[optimalParameters].captureWidth = 320
    /\ heap[optimalParameters].captureHeight = 192
    /\ heap[parametersInEffect].captureWidth = 640

\* the rate of the claim, in exact arithmetic:
\* ((544/11 + 14880/(11*n)) / 600) * I = (544*n + 14880) * I / (6600 * n)
ExactRate(n, I, priority) ==
    IF priority THEN I
    ELSE IF n <= 2 THEN I
    ELSE IF n <= 4 THEN (I * 2) \div 3
    ELSE ((544 * n + 14880) * I) \div (6600 * n)

\* C17 as stated: maxBandwidthKbps() returns floor(I) with bandwidth
\* priority; otherwise I when n <= 2, floor(I*2/3) when n is 3 or 4, and
\* floor(((544/11 + 14880/(11*n))/600)*I) when n > 4.
C17_MaxBandwidthIsExactFloor ==
    /\ history.lastCall = "maxBandwidthKbps" =>
           history.result =
               ExactRate(numParticipants, idealMaxBandwidthKbps, hasBandwidthPriority)
    /\ history.lastCall = "updateIndex" =>
           heap[optimalParameters].maxEncodeBitrateKbps =
               ExactRate(numParticipants, idealMaxBandwidthKbps, hasBandwidthPriority)

\* C18: the computed scaleResolutionDownBy s is
\* max(min(capturedHeight, capturedWidth) / table[min(n, 25)], 1) exactly
\* when n > 2, the policy has no bandwidth priority, scaling is enabled and
\* the live capture width and height are both known; otherwise it is 1.
\* s = a/b is compared with m/t by a * t = m * b.
C18_ScaleResolutionDownBy ==
    history.lastCall = "updateIndex" =>
        LET n == numParticipants
            s == heap[optimalParameters].scaleResolutionDownBy
            m == Min(captureSetting.height, captureSetting.width)
            t == targetHeightArray[Min(n, 25) + 1]
            active == /\ n > 2
                      /\ ~hasBandwidthPriority
                      /\ scaleResolution
                      /\ transceiverController
                      /\ captureSetting.present
                      /\ captureSetting.width # 0
                      /\ captureSetting.height # 0
        IN  /\ s[2] > 0
            /\ active /\ m > t => s[1] * t = m * s[2]
            /\ active /\ m <= t => s[1] = s[2]
            /\ ~active => s[1] = s[2]

C18_Witness ==
    /\ history.lastCall = "updateIndex"
    /\ numParticipants > 25
    /\ captureSetting = [present |-> TRUE, width |-> 1280, height |-> 720]
    /\ heap[optimalParameters].scaleResolutionDownBy = <<4, 1>>

C28_CancelWhilePendingIsForgotten ==
    /\ [][(cancels' # cancels /\ \A r \in Runs : pc[r] = "pending") =>
             UNCHANGED <<cancelPromise, pc, promise, reason, inner, endpointError,
                         thrown, delivered, steps, contextVars>>]_vars
    /\ [](\A r \in Runs :
             (cancelledAt[r] = {"pending"} /\ pc[r] # "pending") =>
                 /\ Len(delivered[r]) = 1
                 /\ delivered[r][1].sdp =
                        MungedOffer(sdpOfferInit.sdp, requiresDisablingH264Encoding,
                                    hasChooseVideoCodecPreferences, videoCodecPreferences,
                                    audioProfile).sdp
                 /\ \E i \in DOMAIN steps[r] : steps[r][i] = "setLocalDescription"
                 /\ reason[r] # CancelError
                 /\ thrown[r] # CancelError
                 /\ inner[r] = "resolved" => promise[r] = "fulfilled")

C28_Witness ==
    /\ cancelledAt[1] = {"pending"}
    /\ cancels = 2
    /\ requiresDisablingH264Encoding
    /\ State(1) = "Committed"

\* C29: for a single run(), the cancellation hook is present exactly while
\* the endpoint call is in flight and not yet cancelled; a cancel() that
\* finds no hook changes nothing, and the promise of a run is rejected by
\* cancel() at most once.
C29_HookPresentExactlyWhileInFlight ==
    /\ [](/\ cancelPromise \in {0, 1}
          /\ cancelPromise = 1 <=>
                 /\ pc[1] = "awaiting"
                 /\ inner[1] = "awaiting"
                 /\ "inflight" \notin cancelledAt[1])
    /\ [][(cancels' # cancels /\ cancelPromise = 0) =>
             UNCHANGED <<cancelPromise, pc, promise, reason, inner, endpointError,
                         thrown, delivered, steps>>]_vars
    /\ [][(cancels' # cancels /\ reason'[1] # reason[1]) =>
             /\ reason[1] = ""
             /\ reason'[1] = CancelError
             /\ "inflight" \notin cancelledAt[1]]_vars

C29_Witness ==
    /\ cancelledAt[1] = {"inflight"}
    /\ cancels = 2
    /\ cancelPromise = 0
    /\ inner[1] = "awaiting"
    /\ reason[1] = CancelError

\* C30: run() acknowledges the policy's pending codec-preference change
\* before the endpoint call starts: once run() has reached the endpoint call
\* the pending mark is cleared, it stays cleared when the run ends Cancelled
\* or Failed, and wantsResubscribe() no longer reports that change.
C30_RunAcknowledgesPreferenceChangeBeforeCommit ==
    /\ [](\A r \in Runs :
             (pc[r] # "pending" /\ hasChooseVideoCodecPreferences) =>
                 /\ ~wantsResubscribeForVideoCodecPreferenceChange
                 /\ history.prefEvent = "read"
                 /\ history.chosen = videoCodecPreferences
                 /\ Equal(heap[parametersInEffect], heap[optimalParameters]) =>
                        ~wantsResubscribe)
    /\ [][(wantsResubscribeForVideoCodecPreferenceChange
             /\ ~wantsResubscribeForVideoCodecPreferenceChange') =>
                \E r \in Runs : pc[r] = "pending" /\ pc'[r] # "pending"]_vars

C30_Witness ==
    /\ State(1) = "Cancelled"
    /\ history.acknowledged
    /\ videoCodecPreferences = <<vp9Profile0, vp8>>
    /\ ~wantsResubscribeForVideoCodecPreferenceChange
    /\ ~wantsResubscribe

\* C21: every entry of a preference list that reaches a policy through
\* setVideoCodecPreferences, and hence the reordering step of the task, is
\* one of the catalog's named values, each with clock rate 90000; no other
\* or absent value gets there, also not from the demo application.
C21_PreferencesAreCatalogValues ==
    \A i \in DOMAIN videoCodecPreferences :
        /\ videoCodecPreferences[i] \in Catalog
        /\ videoCodecPreferences[i].clockRate = 90000

\* the payload types of the sending video section of a description
SendPayloads(d) == ParsedForm(d).video

\* the document the last operation worked on, as it is now
Edited == docs[Ref(edit.target)]

\* position of payload type p in a payload-type list (0: not listed)
PositionIn(pts, p) ==
    IF p \in SeqToSet(pts) THEN CHOOSE i \in DOMAIN pts : pts[i] = p ELSE 0

\* the block a payload type travels in: itself, or its primary for a paired rtx
PrimaryOf(pts, p) == IF IsPairedRtx(p, pts) THEN Rtpmap[p].apt ELSE p

\* the first preference a payload type's block matches (Len + 1: unmatched)
PreferenceRank(pts, prefs, p) ==
    LET hits == {i \in DOMAIN prefs : MatchesPreference(PrimaryOf(pts, p), prefs[i])}
    IN  IF hits = {} THEN Len(prefs) + 1 ELSE CHOOSE i \in hits : \A j \in hits : i <= j

LastReordered ==
    /\ edit.op = "withVideoSendCodecPreferences"
    /\ edit.preferences # <<>>
    /\ SendPayloads(edit.before) # <<>>

\* C22: after withVideoSendCodecPreferences(preferences) the sending video
\* section lists, preference by preference in caller order, the blocks
\* (primary with its rtx) matching that preference that were not placed by
\* an earlier one, then the unmatched blocks in their original relative
\* order; [96,97,98,99] with preference [H264] becomes [98,99,96,97].
C22_PreferredPayloadTypesLeadInCallerOrder ==
    LastReordered =>
        LET before == SendPayloads(edit.before)
            after  == SendPayloads(Edited)
            prefs  == edit.preferences
        IN  /\ \A p, q \in SeqToSet(before) :
                   PrimaryOf(before, p) # PrimaryOf(before, q) =>
                       ( PositionIn(after, p) < PositionIn(after, q)
                         <=> \/ PreferenceRank(before, prefs, p)
                                   < PreferenceRank(before, prefs, q)
                             \/ /\ PreferenceRank(before, prefs, p)
                                      = PreferenceRank(before, prefs, q)
                                /\ PositionIn(before, p) < PositionIn(before, q) )
            /\ (before = <<96, 97, 98, 99>> /\ prefs = <<h264ConstrainedBaselineProfile>>)
                   => after = <<98, 99, 96, 97>>

C22_Witness ==
    /\ LastReordered
    /\ edit.preferences = <<vp9Profile0, vp8>>
    /\ SendPayloads(edit.before) = <<96, 97, 102, 103, 100, 101, 98, 99>>
    /\ SendPayloads(Edited) = <<100, 101, 96, 97, 102, 103, 98, 99>>

\* C23: withVideoSendCodecPreferences and preferH264IfExists permute the
\* payload types of the sending video section: the list afterwards has the
\* payload types it had before, each exactly once, and the other sections
\* keep theirs.
C23_ReorderingIsPermutation ==
    edit.op \in {"withVideoSendCodecPreferences", "preferH264IfExists"} =>
        LET before == SendPayloads(edit.before)
            after  == SendPayloads(Edited)
        IN  /\ Len(after) = Len(before)
            /\ SeqToSet(after) = SeqToSet(before)
            /\ \A i, j \in DOMAIN after : after[i] = after[j] => i = j
            /\ \A i \in DOMAIN Edited.sections :
                   i # SendingVideoSection(Edited) =>
                       Edited.sections[i].payloads = edit.before.sections[i].payloads

C23_Witness ==
    /\ edit.op = "preferH264IfExists"
    /\ SendPayloads(edit.before) = <<96, 97, 102, 103, 100, 101, 98, 99>>
    /\ SendPayloads(Edited) = <<102, 103, 98, 99, 96, 97, 100, 101>>

\* C24: after withVideoSendCodecPreferences or preferH264IfExists every rtx
\* payload type whose primary is listed stands immediately after that
\* primary, whether the primary matched a preference or not.
C24_RtxFollowsItsPrimary ==
    edit.op \in {"withVideoSendCodecPreferences", "preferH264IfExists"} =>
        LET after == SendPayloads(Edited)
        IN  \A i \in DOMAIN after :
                IsPairedRtx(after[i], after) =>
                    i > 1 /\ after[i - 1] = Rtpmap[after[i]].apt

C24_Witness ==
    /\ LastReordered
    /\ edit.preferences = <<h264ConstrainedBaselineProfile>>
    /\ SendPayloads(edit.before) = <<96, 97, 102, 103, 100, 101, 98, 99>>
    /\ SendPayloads(Edited) = <<98, 99, 96, 97, 102, 103, 100, 101>>

\* the objects the caller holds
Held == {1} \cup (IF copy = 0 THEN {} ELSE {copy})

OtherRef(target) == IF target = "original" THEN copy ELSE 1

MLines(ls) == {i \in DOMAIN ls : ls[i].kind = "m"}

SectionHasCandidateLine(ls, i) ==
    \E j \in DOMAIN ls :
        /\ j > i
        /\ ls[j].text = "candidate"
        /\ \A k \in MLines(ls) : ~(i < k /\ k < j)

NonEmptyVideoSections(d) ==
    {i \in DOMAIN d.sections :
        d.sections[i].media = "video" /\ d.sections[i].payloads # <<>>}

\* C27: hasCandidatesForAllMLines() is true exactly when every m-line that
\* lists a payload type has an a=candidate: line in its section; it is
\* false when one of two video sections has none; and when it is true and
\* some m-line lists a payload type, hasCandidates() is true.
C27_AllMLinesHaveCandidates ==
    \A r \in Held :
        LET d  == docs[r]
            ls == lines(d)
        IN  /\ hasCandidatesForAllMLines(d)
                   <=> \A i \in MLines(ls) :
                           ls[i].numbers # <<>> => SectionHasCandidateLine(ls, i)
            /\ ( /\ Cardinality(NonEmptyVideoSections(d)) = 2
                 /\ \E i \in NonEmptyVideoSections(d) :
                        ~HasAttribute(d.sections[i], "candidate") )
                   => ~hasCandidatesForAllMLines(d)
            /\ ( /\ hasCandidatesForAllMLines(d)
                 /\ \E i \in MLines(ls) : ls[i].numbers # <<>> )
                   => hasCandidates(d)

C27_Witness ==
    /\ copy # 0
    /\ Cardinality(NonEmptyVideoSections(docs[copy])) = 2
    /\ \E i \in DOMAIN docs[copy].sections : docs[copy].sections[i].media = "audio"
    /\ HasAttribute(docs[copy].sections[1], "candidate")
    /\ \E i \in NonEmptyVideoSections(docs[copy]) :
           ~HasAttribute(docs[copy].sections[i], "candidate")
    /\ ~hasCandidatesForAllMLines(docs[copy])
    /\ hasCandidates(docs[copy])

\* the optimal parameters are those updateIndex would compute again from
\* the last index, the settings and the capture state as they are now
IndexUnchanged ==
    /\ numParticipants = history.count + (IF HasLocalVideo THEN 1 ELSE 0)
    /\ heap[optimalParameters] = OptimalParametersFor(numParticipants)

\* C31: chooseVideoCodecPreferences() right after
\* chooseCaptureAndEncodeParameters() leaves wantsResubscribe() false; it
\* turns true only by an updateIndex that yields other optimal parameters or
\* by setVideoCodecPreferences; an updateIndex with the count, the settings
\* and the capture state of the last one leaves it as it is.
C31_RoundSettlesPolicy ==
    /\ [][ ( /\ history.lastCall = "chooseCaptureAndEncodeParameters"
             /\ history'.lastCall = "chooseVideoCodecPreferences" )
               => ~wantsResubscribe' ]_vars
    /\ [][ (~wantsResubscribe /\ wantsResubscribe')
               => \/ /\ history'.lastCall = "updateIndex"
                     /\ heap'[optimalParameters'] # heap[optimalParameters]
                  \/ history'.lastCall = "setVideoCodecPreferences" ]_vars
    /\ [][ ( /\ history'.lastCall = "updateIndex"
             /\ calls' # calls
             /\ history'.count = history.count
             /\ IndexUnchanged )
               => /\ heap'[optimalParameters'] = heap[optimalParameters]
                  /\ wantsResubscribe' = wantsResubscribe ]_vars

\* updateIndex, chooseCaptureAndEncodeParameters, chooseVideoCodecPreferences
\* and the same updateIndex again
C31_Witness ==
    /\ calls = 4
    /\ history.lastCall = "updateIndex"
    /\ history.prefEvent = "read"
    /\ numParticipants = 5
    /\ heap[parametersInEffect].captureWidth = 320
    /\ heap[optimalParameters] = heap[parametersInEffect]
    /\ optimalParameters # parametersInEffect
    /\ returnedParameters # 0
    /\ ~wantsResubscribe

\* C32: setIdealMaxBandwidthKbps and setHasBandwidthPriority change the
\* setting only: numParticipants, optimalParameters, parametersInEffect and
\* wantsResubscribe() stay as they are while maxBandwidthKbps() follows the
\* new setting; chooseCaptureAndEncodeParameters() returns the bandwidth
\* optimalParameters held before the call; and only updateIndex changes
\* numParticipants or optimalParameters.
C32_SettersLeaveParametersUntilUpdateIndex ==
    /\ [][ ( /\ history'.lastCall \in {"setIdealMaxBandwidthKbps",
                                       "setHasBandwidthPriority"}
             /\ calls' # calls )
               => /\ numParticipants' = numParticipants
                  /\ optimalParameters' = optimalParameters
                  /\ parametersInEffect' = parametersInEffect
                  /\ heap'[optimalParameters'] = heap[optimalParameters]
                  /\ heap'[parametersInEffect'] = heap[parametersInEffect]
                  /\ wantsResubscribe' = wantsResubscribe
                  /\ maxBandwidthKbps' =
                         MaxBandwidthKbpsOf(numParticipants, idealMaxBandwidthKbps',
                                            hasBandwidthPriority') ]_vars
    /\ [][ (history'.lastCall = "chooseCaptureAndEncodeParameters" /\ calls' # calls)
               => heap'[returnedParameters'].maxEncodeBitrateKbps
                      = heap[optimalParameters].maxEncodeBitrateKbps ]_vars
    /\ [][ ( \/ numParticipants' # numParticipants
             \/ optimalParameters' # optimalParameters
             \/ heap'[optimalParameters'] # heap[optimalParameters] )
               => history'.lastCall = "updateIndex" ]_vars

\* updateIndex, setIdealMaxBandwidthKbps(600), chooseCaptureAndEncodeParameters
C32_Witness ==
    /\ calls = 3
    /\ history.lastCall = "chooseCaptureAndEncodeParameters"
    /\ idealMaxBandwidthKbps = 600
    /\ numParticipants = 2
    /\ maxBandwidthKbps = 600
    /\ heap[returnedParameters].maxEncodeBitrateKbps = 1400
    /\ heap[optimalParameters].maxEncodeBitrateKbps = 1400

\* what maxBandwidthKbps() returns for n participants under the settings
\* as they are
RateAt(n) == MaxBandwidthKbpsOf(n, idealMaxBandwidthKbps, hasBandwidthPriority)

\* C33: without bandwidth priority the value maxBandwidthKbps() returns for
\* n participants is at most the value for any smaller count, at least
\* floor(544*I/6600) and at most I; it is floor(320*I/600) at n = 5, which
\* is not above the value at n = 4, and the value at n = 3 is not above the
\* value at n = 2.
C33_RateNonIncreasingInParticipants ==
    ( /\ ~hasBandwidthPriority
      /\ history.lastCall = "maxBandwidthKbps" )
        => LET n == numParticipants
               I == idealMaxBandwidthKbps
               r == history.result
           IN  /\ r = RateAt(n)
               /\ (544 * I) \div 6600 <= r
               /\ r <= I
               /\ \A m \in 0..n : r <= RateAt(m)
               /\ n = 5 => r = (320 * I) \div 600 /\ r <= RateAt(4)
               /\ n = 3 => r <= RateAt(2)

C33_Witness ==
    /\ ~hasBandwidthPriority
    /\ history.lastCall = "maxBandwidthKbps"
    /\ idealMaxBandwidthKbps = 1100
    /\ numParticipants = 15
    /\ history.result = 255
    /\ RateAt(14) = 267
    /\ RateAt(16) = 245

\* a fraction that is a number >= 1 (a denominator of 0 is a division by 0)
AtLeastOne(x) == x[2] > 0 /\ x[1] >= x[2]

\* the table is read for the participant count n
ReadsTable(n, setting) ==
    /\ setting.height # 0
    /\ setting.width # 0
    /\ scaleResolution
    /\ ~hasBandwidthPriority
    /\ n > 2

\* C34: the scaleResolutionDownBy of optimalParameters and the one
\* updateTransceiverController() computes for the encoding it pushes are
\* numbers >= 1; whenever the target-height table is read, the index is
\* min(n, 25), lies in 3..25 and its entry is not 0.
C34_ScaleAtLeastOneAndTableReadInRange ==
    /\ AtLeastOne(heap[optimalParameters].scaleResolutionDownBy)
    /\ getStreamCaptureSetting # <<>> =>
           LET n     == numParticipants
               index == Min(n, 25)
           IN  /\ AtLeastOne(calculateEncodingParameters(n, captureSetting)
                                 .scaleResolutionDownBy)
               /\ ReadsTable(n, captureSetting) =>
                      /\ index \in 3..25
                      /\ index + 1 \in DOMAIN targetHeightArray
                      /\ targetHeightArray[index + 1] # 0
                      /\ TargetHeight(n) = targetHeightArray[index + 1]

C34_Witness ==
    /\ history.lastCall = "updateIndex"
    /\ numParticipants = 27
    /\ scaleResolution
    /\ ~hasBandwidthPriority
    /\ getStreamCaptureSetting = <<[present |-> TRUE, width |-> 320, height |-> 180]>>
    /\ TargetHeight(numParticipants) = 180
    /\ heap[optimalParameters].scaleResolutionDownBy = One

\* no updateIndex has run yet: optimalParameters is the constructor's object
NeverIndexed == heap[optimalParameters].captureWidth = 0

\* C35: before any operation of a new policy wantsResubscribe() is false,
\* the stored preference list is empty, maxBandwidthKbps() is 1400 and
\* numParticipants is 0; a first call of chooseVideoCodecPreferences()
\* returns the empty list and a first call of maxBandwidthKbps() 1400; the
\* first updateIndex, whatever came before it, makes wantsResubscribe() true.
C35_FreshPolicyNeedsNoResubscribe ==
    /\ [](calls = 0 =>
             /\ ~wantsResubscribe
             /\ videoCodecPreferences = <<>>
             /\ maxBandwidthKbps = 1400
             /\ numParticipants = 0
             /\ NeverIndexed)
    /\ [][ (calls = 0 /\ history'.lastCall = "chooseVideoCodecPreferences")
               => history'.chosen = <<>> /\ ~wantsResubscribe' ]_vars
    /\ [][ (calls = 0 /\ history'.lastCall = "maxBandwidthKbps")
               => history'.result = 1400 ]_vars
    /\ [][ (NeverIndexed /\ history'.lastCall = "updateIndex")
               => wantsResubscribe' /\ ~NeverIndexed' ]_vars

\* the first updateIndex after a chooseCaptureAndEncodeParameters() of the
\* constructor's parameters
C35_Witness ==
    /\ calls = 2
    /\ history.lastCall = "updateIndex"
    /\ returnedParameters # 0
    /\ heap[parametersInEffect] = ZeroParameter
    /\ history.prefEvent = "none"
    /\ numParticipants = 1
    /\ wantsResubscribe

\* C36: while the live capture settings are unavailable (no controller, or
\* no transceiver, sender or track behind it), updateTransceiverController()
\* pushes nothing, changes nothing of the policy and raises nothing, and
\* updateIndex stores scale 1; with no controller set updateIndex counts
\* the local participant: numParticipants is the external count plus 1.
C36_NoSettingsNoPush ==
    /\ []( /\ ( /\ history.lastCall = "updateTransceiverController"
                /\ getStreamCaptureSetting = <<>> )
                  => ~history.pushed /\ ~history.raised
           /\ ( /\ history.lastCall = "updateIndex"
                /\ getStreamCaptureSetting = <<>> )
                  => heap[optimalParameters].scaleResolutionDownBy = One
           /\ ( /\ history.lastCall = "updateIndex"
                /\ ~transceiverController )
                  => numParticipants = history.count + 1 )
    /\ [][ ( /\ history'.lastCall = "updateTransceiverController"
             /\ calls' # calls
             /\ getStreamCaptureSetting = <<>> )
               => /\ transceiverEncoding' = transceiverEncoding
                  /\ encodingParamMap' = encodingParamMap
                  /\ heap' = heap
                  /\ numParticipants' = numParticipants
                  /\ wantsResubscribe' = wantsResubscribe ]_vars

\* a controller without a track, three participants, scaling enabled
C36_Witness ==
    /\ history.lastCall = "updateTransceiverController"
    /\ transceiverController
    /\ hasVideoInput
    /\ ~captureSetting.present
    /\ scaleResolution
    /\ numParticipants = 3
    /\ heap[optimalParameters].scaleResolutionDownBy = One
    /\ transceiverEncoding = <<>>
    /\ ~history.pushed

====
